---- MODULE Spec2Model ----
(***************************************************************************)
(* Model of the bolt playbook execution engine                             *)
(* (internal/executor: executor.go, vars.go; internal/playbook).           *)
(*                                                                         *)
(* Go strings are sequences of one-character strings, so that the string   *)
(* operations of the condition evaluator and of the template resolver      *)
(* (TrimSpace, HasPrefix, HasSuffix, Contains, SplitN, Split) are computed *)
(* as the code computes them.  Go values of type `any` are records with a  *)
(* type tag t and a payload v.                                             *)
(***************************************************************************)
EXTENDS Integers, Sequences, FiniteSets, TLC

\* ------------------------------------------------------------------------
\* Bounds of the explored inputs
\* ------------------------------------------------------------------------

\* plays in the playbook
MaxPlays == 2

\* task starts counted by Stats.Tasks before the task loops stop drawing
MaxTasks == 2

\* handlers declared by a play
MaxHandlers == 2

\* items of a loop
MaxLoopLen == 2

\* value of the retries directive
MaxRetries == 2

\* ------------------------------------------------------------------------
\* Go strings
\* ------------------------------------------------------------------------

\* unicode.IsSpace restricted to the characters used here
IsSpace(c) == c \in {" ", "\t", "\n", "\r"}

Drop(s, n) == SubSeq(s, n + 1, Len(s))

Take(s, n) == SubSeq(s, 1, n)

RECURSIVE TrimLeft(_)
TrimLeft(s) ==
    IF s # <<>> /\ IsSpace(Head(s)) THEN TrimLeft(Tail(s)) ELSE s

RECURSIVE TrimRight(_)
TrimRight(s) ==
    IF s # <<>> /\ IsSpace(s[Len(s)]) THEN TrimRight(Take(s, Len(s) - 1)) ELSE s

\* strings.TrimSpace
TrimSpace(s) == TrimRight(TrimLeft(s))

\* strings.HasPrefix
HasPrefix(s, p) == Len(s) >= Len(p) /\ Take(s, Len(p)) = p

\* strings.HasSuffix
HasSuffix(s, p) == Len(s) >= Len(p) /\ Drop(s, Len(s) - Len(p)) = p

\* strings.Index: 0-based position of the first occurrence, -1 if none
Index(s, sub) ==
    LET hits == {i \in 0..(Len(s) - Len(sub)) : SubSeq(s, i + 1, i + Len(sub)) = sub}
    IN  IF hits = {} THEN -1 ELSE CHOOSE i \in hits : \A j \in hits : i <= j

\* strings.Contains
Contains(s, sub) == Index(s, sub) >= 0

\* strings.SplitN(s, sep, 2) for a string that contains sep
SplitN2(s, sep) ==
    LET i == Index(s, sep)
    IN  <<Take(s, i), Drop(s, i + Len(sep))>>

\* strings.Split(s, sep), sep non-empty
RECURSIVE Split(_, _)
Split(s, sep) ==
    LET i == Index(s, sep)
    IN  IF i < 0 THEN <<s>>
        ELSE <<Take(s, i)>> \o Split(Drop(s, i + Len(sep)), sep)

\* strings.TrimSuffix
TrimSuffix(s, p) == IF HasSuffix(s, p) THEN Take(s, Len(s) - Len(p)) ELSE s

\* ------------------------------------------------------------------------
\* Go values (any)
\* ------------------------------------------------------------------------

Nil == [t |-> "nil"]

VBool(b) == [t |-> "bool", v |-> b]

VStr(s) == [t |-> "str", v |-> s]

VInt(n) == [t |-> "int", v |-> n]

\* map[string]any
VMap(m) == [t |-> "map", v |-> m]

\* map[string]string (the env map)
VStrMap(m) == [t |-> "smap", v |-> m]

\* []any
VList(l) == [t |-> "list", v |-> l]

\* the empty Go map
EmptyMap == [k \in {} |-> Nil]

\* m[k] = v
Put(m, k, val) == [x \in (DOMAIN m) \cup {k} |-> IF x = k THEN val ELSE m[x]]

\* delete(m, k)
Delete(m, k) == [x \in (DOMAIN m) \ {k} |-> m[x]]

\* m[k] of a map[string]any: the zero value nil for a missing key
MapGet(m, k) == IF k \in DOMAIN m THEN m[k] ELSE Nil

\* ------------------------------------------------------------------------
\* fmt.Sprintf("%v", v)
\* ------------------------------------------------------------------------

\* the characters used, in byte order
Alphabet ==
    <<"\t", "\n", "\r", " ", "!", "\"", "'", "(", ")", ",", "-", ".",
      "0", "1", "2", "3", "4", "5", "6", "7", "8", "9", ":", "<", "=", ">",
      "A", "B", "C", "D", "E", "F", "G", "H", "I", "J", "K", "L", "M",
      "N", "O", "P", "Q", "R", "S", "T", "U", "V", "W", "X", "Y", "Z",
      "[", "]", "_",
      "a", "b", "c", "d", "e", "f", "g", "h", "i", "j", "k", "l", "m",
      "n", "o", "p", "q", "r", "s", "t", "u", "v", "w", "x", "y", "z",
      "{", "|", "}">>

CharOrd(c) == CHOOSE i \in 1..Len(Alphabet) : Alphabet[i] = c

\* a < b for Go strings (byte-wise)
RECURSIVE StrLess(_, _)
StrLess(a, b) ==
    IF b = <<>> THEN FALSE
    ELSE IF a = <<>> THEN TRUE
    ELSE IF Head(a) = Head(b) THEN StrLess(Tail(a), Tail(b))
    ELSE CharOrd(Head(a)) < CharOrd(Head(b))

\* the keys of a map in the order fmt prints them (sorted)
RECURSIVE SortedKeys(_)
SortedKeys(K) ==
    IF K = {} THEN <<>>
    ELSE LET k == CHOOSE x \in K : \A y \in K \ {x} : StrLess(x, y)
         IN  <<k>> \o SortedKeys(K \ {k})

Digits == <<"0", "1", "2", "3", "4", "5", "6", "7", "8", "9">>

RECURSIVE FormatNat(_)
FormatNat(n) ==
    IF n < 10 THEN <<Digits[n + 1]>>
    ELSE FormatNat(n \div 10) \o <<Digits[(n % 10) + 1]>>

\* %v (%d) of an integer
FormatInt(n) == IF n < 0 THEN <<"-">> \o FormatNat(0 - n) ELSE FormatNat(n)

\* strings.Join
RECURSIVE Join(_, _)
Join(parts, sep) ==
    IF parts = <<>> THEN <<>>
    ELSE IF Len(parts) = 1 THEN parts[1]
    ELSE parts[1] \o sep \o Join(Tail(parts), sep)

RECURSIVE Sprintf(_)
Sprintf(val) ==
    CASE val.t = "nil"  -> <<"<", "n", "i", "l", ">">>
      [] val.t = "bool" -> IF val.v THEN <<"t", "r", "u", "e">>
                                     ELSE <<"f", "a", "l", "s", "e">>
      [] val.t = "str"  -> val.v
      [] val.t = "int"  -> FormatInt(val.v)
      [] val.t = "list" ->
            <<"[">> \o Join([i \in 1..Len(val.v) |-> Sprintf(val.v[i])], <<" ">>) \o <<"]">>
      [] val.t = "map"  ->
            LET ks == SortedKeys(DOMAIN val.v)
            IN  <<"m", "a", "p", "[">>
                \o Join([i \in 1..Len(ks) |-> ks[i] \o <<":">> \o Sprintf(val.v[ks[i]])], <<" ">>)
                \o <<"]">>
      [] val.t = "smap" ->
            LET ks == SortedKeys(DOMAIN val.v)
            IN  <<"m", "a", "p", "[">>
                \o Join([i \in 1..Len(ks) |-> ks[i] \o <<":">> \o val.v[ks[i]]], <<" ">>)
                \o <<"]">>

\* ------------------------------------------------------------------------
\* Condition evaluator (executor.go)
\* ------------------------------------------------------------------------

\* isTruthy: in the numeric case the interface value is compared with the
\* int constant 0, so only an int zero is false
isTruthy(val) ==
    CASE val.t = "nil"  -> FALSE
      [] val.t = "bool" -> val.v
      [] val.t = "str"  ->
            /\ val.v # <<>>
            /\ val.v # <<"f", "a", "l", "s", "e">>
            /\ val.v # <<"F", "a", "l", "s", "e">>
            /\ val.v # <<"n", "o">>
      [] val.t = "int"  -> val.v # 0
      [] val.t \in {"int64", "float64"} -> TRUE
      [] val.t = "list" -> Len(val.v) > 0
      [] val.t = "map"  -> DOMAIN val.v # {}
      [] OTHER -> TRUE

\* the dotted walk of resolveValue: only map[string]any is stepped through
RECURSIVE WalkAny(_, _)
WalkAny(current, parts) ==
    IF parts = <<>> THEN current
    ELSE IF current.t = "map" THEN WalkAny(MapGet(current.v, Head(parts)), Tail(parts))
    ELSE Nil

\* a run-time panic in place of a result
Panic == [t |-> "panic"]

\* resolveValue; s[1 : len(s)-1] of a string that is one quote character is
\* out of range
resolveValue(str, pctx) ==
    LET s == TrimSpace(str)
    IN  IF \/ (HasPrefix(s, <<"'">>) /\ HasSuffix(s, <<"'">>))
           \/ (HasPrefix(s, <<"\"">>) /\ HasSuffix(s, <<"\"">>))
        THEN IF Len(s) < 2 THEN Panic ELSE VStr(SubSeq(s, 2, Len(s) - 1))
        ELSE IF s = <<"t", "r", "u", "e">> \/ s = <<"T", "r", "u", "e">> THEN VBool(TRUE)
        ELSE IF s = <<"f", "a", "l", "s", "e">> \/ s = <<"F", "a", "l", "s", "e">> THEN VBool(FALSE)
        ELSE IF s \in DOMAIN pctx.Vars THEN pctx.Vars[s]
        ELSE IF Contains(s, <<".">>) THEN WalkAny(VMap(pctx.Vars), Split(s, <<".">>))
        ELSE VStr(s)

\* evaluateCondition (its error result is always nil)
RECURSIVE evaluateCondition(_, _)
evaluateCondition(cond, pctx) ==
    LET condition == TrimSpace(cond)
    IN  IF HasPrefix(condition, <<"n", "o", "t", " ">>)
        THEN ~evaluateCondition(Drop(condition, 4), pctx)
        ELSE IF HasSuffix(condition, <<".", "c", "h", "a", "n", "g", "e", "d">>)
        THEN LET varName == TrimSuffix(condition, <<".", "c", "h", "a", "n", "g", "e", "d">>)
             IN  IF varName \in DOMAIN pctx.Registered
                 THEN LET reg == pctx.Registered[varName]
                      IN  IF reg.t = "map"
                          THEN LET changed == MapGet(reg.v, <<"c", "h", "a", "n", "g", "e", "d">>)
                               IN  IF changed.t = "bool" THEN changed.v ELSE FALSE
                          ELSE FALSE
                 ELSE FALSE
        ELSE IF Contains(condition, <<"=", "=">>)
        THEN LET parts == SplitN2(condition, <<"=", "=">>)
             IN  Sprintf(resolveValue(TrimSpace(parts[1]), pctx))
                     = Sprintf(resolveValue(TrimSpace(parts[2]), pctx))
        ELSE IF Contains(condition, <<"!", "=">>)
        THEN LET parts == SplitN2(condition, <<"!", "=">>)
             IN  Sprintf(resolveValue(TrimSpace(parts[1]), pctx))
                     # Sprintf(resolveValue(TrimSpace(parts[2]), pctx))
        ELSE isTruthy(resolveValue(condition, pctx))

\* evaluateCondition panics: a call of resolveValue it makes does
RECURSIVE ConditionPanics(_, _)
ConditionPanics(cond, pctx) ==
    LET condition == TrimSpace(cond)
    IN  IF HasPrefix(condition, <<"n", "o", "t", " ">>)
        THEN ConditionPanics(Drop(condition, 4), pctx)
        ELSE IF HasSuffix(condition, <<".", "c", "h", "a", "n", "g", "e", "d">>)
        THEN FALSE
        ELSE IF Contains(condition, <<"=", "=">>)
        THEN \E i \in 1..2 :
                resolveValue(TrimSpace(SplitN2(condition, <<"=", "=">>)[i]), pctx) = Panic
        ELSE IF Contains(condition, <<"!", "=">>)
        THEN \E i \in 1..2 :
                resolveValue(TrimSpace(SplitN2(condition, <<"!", "=">>)[i]), pctx) = Panic
        ELSE resolveValue(condition, pctx) = Panic

\* ------------------------------------------------------------------------
\* Variable resolver and templating (vars.go)
\* ------------------------------------------------------------------------

\* the nil error
NoError == [kind |-> "nil"]

\* strings.LastIndex
LastIndex(s, sub) ==
    LET hits == {i \in 0..(Len(s) - Len(sub)) : SubSeq(s, i + 1, i + Len(sub)) = sub}
    IN  IF hits = {} THEN -1 ELSE CHOOSE i \in hits : \A j \in hits : i >= j

\* strings.Trim(s, cutset)
RECURSIVE Trim(_, _)
Trim(s, cutset) ==
    IF s # <<>> /\ Head(s) \in cutset THEN Trim(Tail(s), cutset)
    ELSE IF s # <<>> /\ s[Len(s)] \in cutset THEN Trim(Take(s, Len(s) - 1), cutset)
    ELSE s

UpperChars ==
    <<"A", "B", "C", "D", "E", "F", "G", "H", "I", "J", "K", "L", "M",
      "N", "O", "P", "Q", "R", "S", "T", "U", "V", "W", "X", "Y", "Z">>

LowerChars ==
    <<"a", "b", "c", "d", "e", "f", "g", "h", "i", "j", "k", "l", "m",
      "n", "o", "p", "q", "r", "s", "t", "u", "v", "w", "x", "y", "z">>

\* strings.ToLower
ToLower(s) ==
    [i \in 1..Len(s) |->
        IF \E k \in 1..26 : UpperChars[k] = s[i]
        THEN LowerChars[CHOOSE k \in 1..26 : UpperChars[k] = s[i]]
        ELSE s[i]]

\* strings.ToUpper
ToUpper(s) ==
    [i \in 1..Len(s) |->
        IF \E k \in 1..26 : LowerChars[k] = s[i]
        THEN UpperChars[CHOOSE k \in 1..26 : LowerChars[k] = s[i]]
        ELSE s[i]]

IsDigit(c) == \E k \in 1..10 : Digits[k] = c

DigitVal(c) == (CHOOSE k \in 1..10 : Digits[k] = c) - 1

\* the value of the longest prefix of decimal digits, acc so far
RECURSIVE ScanDigits(_, _)
ScanDigits(s, acc) ==
    IF s # <<>> /\ IsDigit(Head(s)) THEN ScanDigits(Tail(s), acc * 10 + DigitVal(Head(s)))
    ELSE acc

\* fmt.Sscanf(v, "%d", &i) with i initially 0: leading space skipped, an
\* optional sign, then decimal digits; i stays 0 when no digit follows
ScanInt(str) ==
    LET s == TrimLeft(str)
        signed == s # <<>> /\ Head(s) \in {"+", "-"}
        body == IF signed THEN Tail(s) ELSE s
    IN  IF body = <<>> \/ ~IsDigit(Head(body)) THEN 0
        ELSE IF signed /\ Head(s) = "-" THEN 0 - ScanDigits(body, 0)
        ELSE ScanDigits(body, 0)

\* the dotted walk of lookupVariable: map[string]any and map[string]string
\* are stepped through, a nil on the way ends the walk
RECURSIVE WalkVars(_, _)
WalkVars(current, parts) ==
    IF parts = <<>> THEN current
    ELSE LET next ==
                 CASE current.t = "map"  -> MapGet(current.v, Head(parts))
                   [] current.t = "smap" ->
                         IF Head(parts) \in DOMAIN current.v
                         THEN VStr(current.v[Head(parts)]) ELSE VStr(<<>>)
                   [] OTHER -> Nil
         IN  IF next = Nil THEN Nil ELSE WalkVars(next, Tail(parts))

\* lookupVariable
lookupVariable(name, pctx) ==
    IF name \in DOMAIN pctx.Registered THEN pctx.Registered[name]
    ELSE IF name \in DOMAIN pctx.Vars THEN pctx.Vars[name]
    ELSE IF Contains(name, <<".">>) THEN WalkVars(VMap(pctx.Vars), Split(name, <<".">>))
    ELSE Nil

\* the filter name applyFilter switches on
FilterName(filter) ==
    LET idx == Index(filter, <<"(">>)
    IN  IF idx > 0 THEN TrimSpace(Take(filter, idx)) ELSE filter

\* the filter argument applyFilter parses
FilterArg(filter) ==
    LET idx == Index(filter, <<"(">>)
        argPart == Drop(filter, idx + 1)
        endIdx == LastIndex(argPart, <<")">>)
    IN  IF idx > 0 /\ endIdx > 0
        THEN Trim(TrimSpace(Take(argPart, endIdx)), {"'", "\""})
        ELSE <<>>

\* the switch of applyFilter on the filter name: the value and the error
FilterSwitch(val, filterName, filterArg) ==
    LET ok(x) == [val |-> x, err |-> NoError]
    IN  CASE filterName = <<"d", "e", "f", "a", "u", "l", "t">> ->
                IF val = Nil \/ val = VStr(<<>>) THEN ok(VStr(filterArg)) ELSE ok(val)
          [] filterName = <<"l", "o", "w", "e", "r">> ->
                IF val.t = "str" THEN ok(VStr(ToLower(val.v))) ELSE ok(val)
          [] filterName = <<"u", "p", "p", "e", "r">> ->
                IF val.t = "str" THEN ok(VStr(ToUpper(val.v))) ELSE ok(val)
          [] filterName = <<"t", "r", "i", "m">> ->
                IF val.t = "str" THEN ok(VStr(TrimSpace(val.v))) ELSE ok(val)
          [] filterName = <<"b", "o", "o", "l">> -> ok(VBool(isTruthy(val)))
          [] filterName = <<"s", "t", "r", "i", "n", "g">> -> ok(VStr(Sprintf(val)))
          [] filterName = <<"i", "n", "t">> ->
                CASE val.t = "int" -> ok(val)
                  [] val.t = "str" -> ok(VInt(ScanInt(val.v)))
                  [] OTHER -> ok(VInt(0))
          [] filterName = <<"f", "i", "r", "s", "t">> ->
                IF val.t = "list" /\ Len(val.v) > 0 THEN ok(val.v[1]) ELSE ok(Nil)
          [] filterName = <<"l", "a", "s", "t">> ->
                IF val.t = "list" /\ Len(val.v) > 0 THEN ok(val.v[Len(val.v)]) ELSE ok(Nil)
          [] filterName \in {<<"l", "e", "n", "g", "t", "h">>, <<"c", "o", "u", "n", "t">>} ->
                CASE val.t = "str"  -> ok(VInt(Len(val.v)))
                  [] val.t = "list" -> ok(VInt(Len(val.v)))
                  [] val.t = "map"  -> ok(VInt(Cardinality(DOMAIN val.v)))
                  [] OTHER -> ok(VInt(0))
          [] filterName = <<"j", "o", "i", "n">> ->
                IF val.t = "list"
                THEN ok(VStr(Join([i \in 1..Len(val.v) |-> Sprintf(val.v[i])],
                                  IF filterArg = <<>> THEN <<",">> ELSE filterArg)))
                ELSE ok(val)
          [] OTHER -> [val |-> Nil, err |-> [kind |-> "unknown filter", name |-> filterName]]

\* applyFilter: the value and the error
applyFilter(varName, filter, pctx) ==
    FilterSwitch(lookupVariable(varName, pctx), FilterName(filter), FilterArg(filter))

\* resolveVariable: the value and the error
resolveVariable(expression, pctx) ==
    LET expr == TrimSpace(expression)
        idx == Index(expr, <<"|">>)
    IN  IF idx > 0
        THEN applyFilter(TrimSpace(Take(expr, idx)), TrimSpace(Drop(expr, idx + 1)), pctx)
        ELSE [val |-> lookupVariable(expr, pctx), err |-> NoError]

\* the leftmost match of varPattern in s at or after 0-based position from:
\* "{{", at least one character other than "}", then "}}"; <<start, end>>
\* (end exclusive), or <<-1, -1>>
RECURSIVE FindVar(_, _)
FindVar(s, from) ==
    IF from + 5 > Len(s) THEN <<-1, -1>>
    ELSE IF SubSeq(s, from + 1, from + 2) # <<"{", "{">> THEN FindVar(s, from + 1)
    ELSE LET close == Index(Drop(s, from + 2), <<"}">>)
         IN  IF close >= 1 /\ from + 2 + close + 2 <= Len(s)
                /\ s[from + 2 + close + 2] = "}"
             THEN <<from, from + 2 + close + 2>>
             ELSE FindVar(s, from + 1)

\* the callback of interpolateString: a match that does not resolve is kept
Replacement(match, r) == IF r.err # NoError THEN match ELSE Sprintf(r.val)

\* varPattern.ReplaceAllStringFunc with the callback of interpolateString
RECURSIVE ReplaceVars(_, _)
ReplaceVars(s, pctx) ==
    LET m == FindVar(s, 0)
        match == SubSeq(s, m[1] + 1, m[2])
    IN  IF m[1] < 0 THEN s
        ELSE Take(s, m[1])
             \o Replacement(match,
                    resolveVariable(TrimSpace(SubSeq(match, 3, Len(match) - 2)), pctx))
             \o ReplaceVars(Drop(s, m[2]), pctx)

\* interpolateString: the value and the error
interpolateString(s, pctx) ==
    LET trimmed == TrimSpace(s)
        inner == TrimSpace(SubSeq(trimmed, 3, Len(trimmed) - 2))
    IN  IF /\ HasPrefix(trimmed, <<"{", "{">>)
           /\ HasSuffix(trimmed, <<"}", "}">>)
           /\ ~Contains(inner, <<"{", "{">>)
        THEN resolveVariable(inner, pctx)
        ELSE [val |-> VStr(ReplaceVars(s, pctx)), err |-> NoError]

\* interpolateValue: strings are interpolated, lists and maps element-wise,
\* the first error wins
\* interpolateValue on a list, from the results rs of its elements
ListResult(rs) ==
    IF \E i \in 1..Len(rs) : rs[i].err # NoError
    THEN [val |-> Nil,
          err |-> rs[CHOOSE i \in 1..Len(rs) :
                        /\ rs[i].err # NoError
                        /\ \A j \in 1..(i - 1) : rs[j].err = NoError].err]
    ELSE [val |-> VList([i \in 1..Len(rs) |-> rs[i].val]), err |-> NoError]

\* interpolateValue on a map, from the results rs of its entries
MapResult(rs) ==
    IF \E k \in DOMAIN rs : rs[k].err # NoError
    THEN [val |-> Nil, err |-> rs[CHOOSE k \in DOMAIN rs : rs[k].err # NoError].err]
    ELSE [val |-> VMap([k \in DOMAIN rs |-> rs[k].val]), err |-> NoError]

RECURSIVE interpolateValue(_, _)
interpolateValue(val, pctx) ==
    CASE val.t = "str" -> interpolateString(val.v, pctx)
      [] val.t = "list" ->
            ListResult([i \in 1..Len(val.v) |-> interpolateValue(val.v[i], pctx)])
      [] val.t = "map" ->
            MapResult([k \in DOMAIN val.v |-> interpolateValue(val.v[k], pctx)])
      [] OTHER -> [val |-> val, err |-> NoError]

\* interpolateParams from the results rs of the params
ParamsResult(rs) ==
    IF \E k \in DOMAIN rs : rs[k].err # NoError
    THEN LET k == CHOOSE x \in DOMAIN rs : rs[x].err # NoError
         IN  [val |-> EmptyMap,
              err |-> [kind |-> "parameter", name |-> k, cause |-> rs[k].err]]
    ELSE [val |-> [k \in DOMAIN rs |-> rs[k].val], err |-> NoError]

\* interpolateParams: the interpolated map and the error
interpolateParams(params, pctx) ==
    ParamsResult([k \in DOMAIN params |-> interpolateValue(params[k], pctx)])

\* ------------------------------------------------------------------------
\* The playbooks explored
\* ------------------------------------------------------------------------

S_item == <<"i", "t", "e", "m">>

S_loop_index == <<"l", "o", "o", "p", "_", "i", "n", "d", "e", "x">>

S_r == <<"r">>

S_flag == <<"f", "l", "a", "g">>

S_env == <<"e", "n", "v">>

S_facts == <<"f", "a", "c", "t", "s">>

S_changed == <<"c", "h", "a", "n", "g", "e", "d">>

S_message == <<"m", "e", "s", "s", "a", "g", "e">>

S_data == <<"d", "a", "t", "a">>

S_cmd == <<"c", "m", "d">>

\* handler names
HA == <<"A">>

HB == <<"B">>

M_command == <<"c", "o", "m", "m", "a", "n", "d">>

M_nosuch == <<"n", "o", "s", "u", "c", "h">>

\* the module registry after start-up (module.Register in each init)
Registry ==
    {M_command, <<"s", "h", "e", "l", "l">>, <<"a", "p", "t">>, <<"b", "r", "e", "w">>,
     <<"c", "o", "p", "y">>, <<"f", "i", "l", "e">>,
     <<"t", "e", "m", "p", "l", "a", "t", "e">>}

\* getEnvMap()
EnvMap == VStrMap((<<"H", "O", "M", "E">> :> <<"h">>))

\* the map facts.Gather returns
FactsMap == (<<"o", "s", "_", "f", "a", "m", "i", "l", "y">> :> VStr(<<"D", "e", "b", "i", "a", "n">>))

\* plays: vars, gather_facts and connection ("" when the play names none)
PlayPool ==
    {[Vars |-> EmptyMap, GatherFacts |-> FALSE, Connection |-> ""],
     [Vars |-> (S_flag :> VBool(TRUE)) @@ (S_item :> VStr(<<"x">>)), GatherFacts |-> TRUE,
      Connection |-> "docker"]}
    \cup {[Vars |-> EmptyMap, GatherFacts |-> TRUE, Connection |-> c] :
             c \in {"ssh", "ssm", "telnet"}}

\* the connection types Play.Validate accepts
Connections == {"local", "docker", "ssh", "ssm"}

\* Play.GetConnection
GetConnection(play) == IF play.Connection = "" THEN "local" ELSE play.Connection

\* Play.Validate: the check of the connection type
ValidConnection(play) == GetConnection(play) \in Connections

\* variant of getConnector with an ssh connector
getConnectorWithSsh(play) ==
    CASE GetConnection(play) \in {"local", "docker", "ssh"} -> NoError
      [] GetConnection(play) = "ssm" -> [kind |-> "connector", conn |-> "ssm"]
      [] OTHER -> [kind |-> "unknown connection type", conn |-> GetConnection(play)]

\* getConnector: the error it returns
getConnector(play) ==
    CASE GetConnection(play) \in {"local", "docker"} -> NoError
      [] GetConnection(play) \in {"ssh", "ssm"} ->
            [kind |-> "connector", conn |-> GetConnection(play)]
      [] OTHER -> [kind |-> "unknown connection type", conn |-> GetConnection(play)]

\* when clauses: none, a registered result, a negated variable, a comparison
Whens ==
    {<<>>,
     <<"r", ".", "c", "h", "a", "n", "g", "e", "d">>,
     <<"n", "o", "t", " ", "f", "l", "a", "g">>,
     <<"i", "t", "e", "m", " ", "=", "=", " ", "'", "a", "'">>}

Registers == {<<>>, S_r}

Notifies == {<<>>, <<HA>>, <<HB>>, <<HA, HB>>}

LoopItems == <<VStr(<<"a">>), VStr(<<"b">>), VStr(<<"c">>), VStr(<<"d">>)>>

\* loops: the prefixes of LoopItems
Loops == {Take(LoopItems, n) : n \in 0..MaxLoopLen}

LoopVars == {<<>>, S_r}

Modules == {M_command, M_nosuch}

\* params: plain text, a whole-string expression, an unknown filter
ParamsPool ==
    {(S_cmd :> VStr(<<"e", "c", "h", "o">>)),
     (S_cmd :> VStr(<<"{", "{", " ", "i", "t", "e", "m", " ", "}", "}">>)),
     (S_cmd :> VStr(<<"{", "{", " ", "r", " ", "|", " ", "n", "o", "p", "e", " ", "}", "}">>))}

DefaultTask ==
    [Name |-> <<>>, Module |-> M_command,
     Params |-> (S_cmd :> VStr(<<"e", "c", "h", "o">>)),
     When |-> <<>>, Register |-> <<>>, Notify |-> <<>>, Loop |-> <<>>,
     LoopVar |-> <<>>, IgnoreErrors |-> FALSE, Retries |-> 0, ChangedWhen |-> <<>>]

S_notflag == <<"n", "o", "t", " ", "f", "l", "a", "g">>

\* tasks with a when clause: registering and looping, or notifying
WhenTasks ==
    {[DefaultTask EXCEPT !.When = w, !.Register = r, !.Loop = l] :
        w \in Whens \ {<<>>}, r \in Registers, l \in {<<>>, Take(LoopItems, MaxLoopLen)}}
    \cup {[DefaultTask EXCEPT !.When = w, !.Notify = <<HA>>] : w \in Whens \ {<<>>}}

\* tasks that vary register, loop, loop_var and ignore_errors
LoopTasks ==
    {[DefaultTask EXCEPT !.Register = r, !.Loop = l, !.LoopVar = lv, !.IgnoreErrors = ig] :
        r \in Registers, ig \in BOOLEAN,
        <<l, lv>> \in {x \in Loops \X LoopVars : x[1] = <<>> => x[2] = <<>>}}

\* tasks that notify: once or per loop item, with or without ignore_errors
NotifyTasks ==
    {[DefaultTask EXCEPT !.Notify = n, !.Loop = l, !.IgnoreErrors = ig] :
        n \in Notifies \ {<<>>}, l \in {<<>>, Take(LoopItems, MaxLoopLen)}, ig \in BOOLEAN}

\* tasks that vary retries and ignore_errors
RetryTasks ==
    {[DefaultTask EXCEPT !.Retries = k, !.IgnoreErrors = ig] :
        k \in 0..MaxRetries, ig \in BOOLEAN}

\* tasks whose module or params may fail before the module is invoked
ErrorTasks ==
    {[DefaultTask EXCEPT !.Module = m, !.Params = p, !.IgnoreErrors = ig] :
        m \in Modules, p \in ParamsPool, ig \in BOOLEAN}
    \cup {[DefaultTask EXCEPT !.Module = M_nosuch, !.Register = S_r, !.Notify = <<HA>>,
                              !.IgnoreErrors = TRUE]}
    \cup {[DefaultTask EXCEPT !.Params = p, !.Register = S_r, !.Notify = <<HA>>,
                              !.IgnoreErrors = TRUE] : p \in ParamsPool}

\* a task with changed_when: "false" that notifies
OverrideTasks ==
    {[DefaultTask EXCEPT !.ChangedWhen = <<"f", "a", "l", "s", "e">>, !.Notify = <<HA>>]}

\* a loop task whose loop_var is "loop_index"
IndexTasks ==
    {[DefaultTask EXCEPT !.Loop = Take(LoopItems, MaxLoopLen), !.LoopVar = S_loop_index]}

\* a command that only runs when a path exists
RemovesTasks ==
    {[DefaultTask EXCEPT !.Params = @ @@ (<<"r", "e", "m", "o", "v", "e", "s">> :> VStr(<<"f">>))]}

TaskPool ==
    WhenTasks \cup LoopTasks \cup NotifyTasks \cup RetryTasks \cup ErrorTasks
    \cup OverrideTasks \cup IndexTasks \cup RemovesTasks

\* handlers: named, may notify; one that does not notify may retry, carry
\* ignore_errors or a when clause, or name an unknown module
HandlerPool ==
    {[DefaultTask EXCEPT !.Name = n, !.Notify = nf] :
        n \in {HA, HB}, nf \in {<<>>, <<HA>>, <<HB>>}}
    \cup {[DefaultTask EXCEPT !.Name = HA, !.IgnoreErrors = TRUE],
          [DefaultTask EXCEPT !.Name = HB, !.Retries = 1],
          [DefaultTask EXCEPT !.Name = HA, !.Module = M_nosuch],
          [DefaultTask EXCEPT !.Name = HB, !.Module = M_nosuch, !.IgnoreErrors = TRUE],
          [DefaultTask EXCEPT !.Name = HB, !.When = S_notflag]}

\* errors a module invocation returns
ModuleErrors == {[kind |-> "module", id |-> "e1"], [kind |-> "module", id |-> "e2"]}

\* results a module invocation returns
ModuleResults ==
    {[Changed |-> c, Message |-> <<"m">>, Data |-> VMap(EmptyMap)] : c \in BOOLEAN}

\* ------------------------------------------------------------------------
\* Shorthand expansion (parser.go)
\* ------------------------------------------------------------------------

S_raw == <<"_", "r", "a", "w">>

\* strings.Fields
RECURSIVE Fields(_)
Fields(s) ==
    LET t == TrimLeft(s)
        ends == {i \in 1..Len(t) : IsSpace(t[i])}
        n == IF ends = {} THEN Len(t) ELSE (CHOOSE i \in ends : \A j \in ends : i <= j) - 1
    IN  IF t = <<>> THEN <<>> ELSE <<Take(t, n)>> \o Fields(Drop(t, n))

\* the key=value pairs of the fields, later pairs overwriting earlier ones
RECURSIVE ShorthandPairs(_, _)
ShorthandPairs(parts, acc) ==
    IF parts = <<>> THEN acc
    ELSE LET part == Head(parts)
             idx == Index(part, <<"=">>)
         IN  IF idx > 0
             THEN ShorthandPairs(Tail(parts),
                      Put(acc, Take(part, idx), VStr(Trim(Drop(part, idx + 1), {"\"", "'"}))))
             ELSE ShorthandPairs(Tail(parts), acc)

\* ExpandShorthand with "name" as the key of every single argument
ExpandShorthandNameOnly(t) ==
    IF ~(S_raw \in DOMAIN t.Params /\ t.Params[S_raw].t = "str") THEN t
    ELSE IF ~Contains(t.Params[S_raw].v, <<"=">>)
         THEN [t EXCEPT !.Params = (<<"n", "a", "m", "e">> :> VStr(t.Params[S_raw].v))]
         ELSE [t EXCEPT !.Params = ShorthandPairs(Fields(t.Params[S_raw].v), EmptyMap)]

\* ExpandShorthand: the task with its params expanded
ExpandShorthand(t) ==
    IF ~(S_raw \in DOMAIN t.Params /\ t.Params[S_raw].t = "str") THEN t
    ELSE LET raw == t.Params[S_raw].v
         IN  IF ~Contains(raw, <<"=">>)
             THEN [t EXCEPT !.Params =
                     CASE t.Module \in {M_command, <<"s", "h", "e", "l", "l">>} -> (S_cmd :> VStr(raw))
                       [] t.Module = <<"f", "i", "l", "e">> -> (<<"p", "a", "t", "h">> :> VStr(raw))
                       [] t.Module = <<"c", "o", "p", "y">> -> (<<"d", "e", "s", "t">> :> VStr(raw))
                       [] OTHER -> (<<"n", "a", "m", "e">> :> VStr(raw))]
             ELSE [t EXCEPT !.Params = ShorthandPairs(Fields(raw), EmptyMap)]

\* ------------------------------------------------------------------------
\* Execution orchestrator (executor.go)
\* ------------------------------------------------------------------------

VARIABLES
    DryRun,         \* Executor.DryRun
    nPlays,         \* len(pb.Plays)
    pc,             \* the position of the run
    playIdx,        \* plays started by Run
    stats,          \* Stats
    success,        \* RunResult.Success
    pctx,           \* the PlayContext of the current play
    taskIdx,        \* tasks of the current play started
    task,           \* the task or handler being executed
    frame,          \* the caller of runSingleTask
    loopIdx,        \* i of runTaskLoop
    anyChanged,     \* anyChanged of runTaskLoop
    attempt,        \* attempt of runSingleTask
    lastErr,        \* lastErr of runSingleTask
    ret,            \* the (result, err) last returned by runSingleTask or runTask
    handlerIdx,     \* handlers of the current play visited by runHandlers
    playErr,        \* the error runPlay returns
    attemptLog,     \* observed: outcome of each mod.Run of the current execution
    delays,         \* observed: time.Sleep calls of the current execution
    declared,       \* observed: names of the handlers visited so far
    handlerLog,     \* observed: indexes of the handlers executed, in order
    notifications,  \* observed: who put which name into NotifiedHandlers
    cancelled,      \* the context of runPlaybook is cancelled, as seen by the
                    \* connector calls, the only readers of the context
    before,         \* observed: the PlayContext when the task or handler in
                    \* execution was started
    call,           \* the function applied on its own, "" while the executor runs
    input,          \* its arguments
    output          \* its result, Pending before the call

execVars ==
    <<DryRun, nPlays, pc, playIdx, stats, success, pctx, taskIdx, task, frame,
      loopIdx, anyChanged, attempt, lastErr, ret, handlerIdx, playErr,
      attemptLog, delays, declared, handlerLog, notifications, cancelled, before>>

vars == <<execVars, call, input, output>>

\* no result yet
Pending == [t |-> "pending"]

NoTask == [DefaultTask EXCEPT !.Module = <<>>]

NoRet == [Status |-> "", Changed |-> FALSE, err |-> NoError]

\* the PlayContext runPlay creates
NewPlayContext ==
    [Play |-> [Vars |-> EmptyMap, GatherFacts |-> FALSE, Connection |-> ""],
     Vars |-> EmptyMap, Facts |-> EmptyMap, Registered |-> EmptyMap, NotifiedHandlers |-> {}]

\* variant of FreshContext that keeps what the play before registered and
\* notified
KeptContext(prev) ==
    [NewPlayContext EXCEPT !.Registered = prev.Registered,
                           !.NotifiedHandlers = prev.NotifiedHandlers]

\* runPlay: the context of a play is built from nothing; the context prev of
\* the play before is not read
FreshContext(prev) == NewPlayContext

\* Task.GetLoopVar
GetLoopVar(t) == IF t.LoopVar = <<>> THEN S_item ELSE t.LoopVar

\* variant of CountStatus that leaves skipped tasks out
CountStatusOkOnly(st, status) ==
    CASE status = "ok"      -> [st EXCEPT !.OK = @ + 1]
      [] status = "changed" -> [st EXCEPT !.Changed = @ + 1]
      [] OTHER -> st

\* the counting switch of runPlay on a task result
CountStatus(st, status) ==
    CASE status = "ok"      -> [st EXCEPT !.OK = @ + 1]
      [] status = "changed" -> [st EXCEPT !.Changed = @ + 1]
      [] status = "skipped" -> [st EXCEPT !.Skipped = @ + 1]
      [] OTHER -> st

\* the counting switch of runHandlers on a handler result
CountHandlerStatus(st, status) ==
    CASE status = "ok"      -> [st EXCEPT !.OK = @ + 1]
      [] status = "changed" -> [st EXCEPT !.Changed = @ + 1]
      [] OTHER -> st

\* the state at the entry of the play loop of Run
Init ==
    /\ call = ""
    /\ input = Nil
    /\ output = Pending
    /\ DryRun \in BOOLEAN
    /\ nPlays \in 0..MaxPlays
    /\ pc = "Run"
    /\ playIdx = 0
    /\ stats = [Plays |-> nPlays, Tasks |-> 0, OK |-> 0, Changed |-> 0,
                Failed |-> 0, Skipped |-> 0]
    /\ success = TRUE
    /\ pctx = NewPlayContext
    /\ taskIdx = 0
    /\ task = NoTask
    /\ frame = "none"
    /\ loopIdx = 0
    /\ anyChanged = FALSE
    /\ attempt = 0
    /\ lastErr = NoError
    /\ ret = NoRet
    /\ handlerIdx = 0
    /\ playErr = NoError
    /\ attemptLog = <<>>
    /\ delays = 0
    /\ declared = <<>>
    /\ handlerLog = <<>>
    /\ notifications = {}
    /\ cancelled = FALSE
    /\ before = NewPlayContext

\* the moments of the interrupt relative to a use of the context: not
\* since the use before, before this use, during it
Signals == {"none", "before", "during"}

\* the facts facts.Gather collects through the connector: none once the
\* context is cancelled, Gather dropping every command that fails
GatheredFacts(ctxDone) == IF ctxDone THEN EmptyMap ELSE FactsMap

\* conn.Connect: the docker connector runs a command and fails once the
\* context is cancelled, the local connector runs none
CanConnect(play, ctxDone) == ~(ctxDone /\ GetConnection(play) = "docker")

\* runPlay up to its task loop: context, connector, connect, facts; the
\* interrupt may have come before the connector is used
runPlay ==
    /\ pc = "Run"
    /\ playIdx < nPlays
    /\ \E play \in {p \in PlayPool : ValidConnection(p)}, connected \in BOOLEAN,
          signal \in Signals \ {"during"} :
          LET withEnv == Put(play.Vars, S_env, EnvMap)
              gather == play.GatherFacts
              connectorErr == getConnector(play) # NoError
              failed == connectorErr \/ ~connected
              ctxDone == cancelled \/ signal = "before"
          IN  /\ signal = "before" => ~cancelled
              /\ connected => CanConnect(play, ctxDone)
              /\ cancelled' = ctxDone
              /\ pctx' = [FreshContext(pctx) EXCEPT
                             !.Play = play,
                             !.Vars = IF ~failed /\ gather
                                      THEN Put(withEnv, S_facts, VMap(GatheredFacts(ctxDone)))
                                      ELSE withEnv,
                             !.Facts = IF ~failed /\ gather THEN GatheredFacts(ctxDone) ELSE EmptyMap]
              /\ playErr' = IF connectorErr THEN getConnector(play)
                            ELSE IF ~connected THEN [kind |-> "connect"]
                            ELSE NoError
              /\ pc' = IF failed THEN "playRet" ELSE "tasks"
    /\ playIdx' = playIdx + 1
    /\ taskIdx' = 0
    /\ handlerIdx' = 0
    /\ declared' = <<>>
    /\ handlerLog' = <<>>
    /\ notifications' = {}
    /\ UNCHANGED <<call, input, output, before, DryRun, nPlays, stats, success, task, frame, loopIdx, anyChanged,
                   attempt, lastErr, ret, attemptLog, delays>>

\* variant of WhenSkips with the test of the condition inverted
WhenSkipsInverted(t, ctx) == t.When # <<>> /\ evaluateCondition(t.When, ctx)

\* runTask: the when check that skips the task
WhenSkips(t, ctx) == t.When # <<>> /\ ~evaluateCondition(t.When, ctx)

\* runPlay: the next task of the task loop, through runTask up to the call
\* of runTaskLoop or runSingleTask
runTask ==
    /\ pc = "tasks"
    /\ stats.Tasks < MaxTasks
    /\ \E t \in TaskPool :
          /\ task' = t
          /\ IF WhenSkips(t, pctx)
             THEN /\ ret' = [Status |-> "skipped", Changed |-> FALSE, err |-> NoError]
                  /\ pc' = "taskRet"
                  /\ frame' = "none"
             ELSE IF Len(t.Loop) > 0
             THEN /\ ret' = NoRet
                  /\ pc' = "loop"
                  /\ frame' = "loop"
             ELSE /\ ret' = NoRet
                  /\ pc' = "single"
                  /\ frame' = "task"
    /\ stats' = [stats EXCEPT !.Tasks = @ + 1]
    /\ taskIdx' = taskIdx + 1
    /\ loopIdx' = 0
    /\ anyChanged' = FALSE
    /\ before' = pctx
    /\ UNCHANGED <<call, input, output, cancelled, DryRun, nPlays, playIdx, success, pctx, attempt, lastErr, handlerIdx,
                   playErr, attemptLog, delays, declared, handlerLog, notifications>>

\* runTaskLoop: the head of the loop over task.Loop, and the clean-up after it
runTaskLoop ==
    /\ pc = "loop"
    /\ IF loopIdx < Len(task.Loop)
       THEN /\ pctx' = [pctx EXCEPT !.Vars =
                           Put(Put(@, GetLoopVar(task), task.Loop[loopIdx + 1]),
                               S_loop_index, VInt(loopIdx))]
            /\ pc' = "single"
            /\ ret' = ret
       ELSE /\ pctx' = [pctx EXCEPT !.Vars = Delete(Delete(@, GetLoopVar(task)), S_loop_index)]
            /\ pc' = "taskRet"
            /\ ret' = [Status |-> IF anyChanged THEN "changed" ELSE "ok",
                       Changed |-> anyChanged, err |-> NoError]
    /\ UNCHANGED <<call, input, output, cancelled, before, DryRun, nPlays, playIdx, stats, success, taskIdx, task, frame, loopIdx,
                   anyChanged, attempt, lastErr, handlerIdx, playErr, attemptLog, delays,
                   declared, handlerLog, notifications>>

\* runTaskLoop after runSingleTask returned for one item
runTaskLoopRet ==
    /\ pc = "singleRet"
    /\ frame = "loop"
    /\ IF ret.err # NoError
       THEN /\ pc' = "taskRet"
            /\ UNCHANGED <<loopIdx, anyChanged>>
       ELSE /\ pc' = "loop"
            /\ loopIdx' = loopIdx + 1
            /\ anyChanged' = (anyChanged \/ ret.Changed)
    /\ UNCHANGED <<call, input, output, cancelled, before, DryRun, nPlays, playIdx, stats, success, pctx, taskIdx, task, frame,
                   attempt, lastErr, ret, handlerIdx, playErr, attemptLog, delays,
                   declared, handlerLog, notifications>>

\* variant of Prepare that goes on when the params failed to interpolate
PrepareIgnoringParams(t, params, dry) ==
    IF t.Module \notin Registry
    THEN [pc |-> "singleRet",
          ret |-> [Status |-> "", Changed |-> FALSE,
                   err |-> [kind |-> "unknown module", name |-> t.Module]]]
    ELSE IF dry
    THEN [pc |-> "singleRet",
          ret |-> [Status |-> "skipped", Changed |-> FALSE, err |-> NoError]]
    ELSE [pc |-> "attempt", ret |-> NoRet]

\* variant of Prepare with the dry-run return ahead of module resolution
PrepareDryRunFirst(t, params, dry) ==
    IF dry
    THEN [pc |-> "singleRet",
          ret |-> [Status |-> "skipped", Changed |-> FALSE, err |-> NoError]]
    ELSE IF t.Module \notin Registry
    THEN [pc |-> "singleRet",
          ret |-> [Status |-> "", Changed |-> FALSE,
                   err |-> [kind |-> "unknown module", name |-> t.Module]]]
    ELSE IF params.err # NoError
    THEN [pc |-> "singleRet",
          ret |-> [Status |-> "", Changed |-> FALSE,
                   err |-> [kind |-> "interpolate", cause |-> params.err]]]
    ELSE [pc |-> "attempt", ret |-> NoRet]

\* variant of Prepare without the dry-run return
PrepareNoDryRun(t, params, dry) ==
    IF t.Module \notin Registry
    THEN [pc |-> "singleRet",
          ret |-> [Status |-> "", Changed |-> FALSE,
                   err |-> [kind |-> "unknown module", name |-> t.Module]]]
    ELSE IF params.err # NoError
    THEN [pc |-> "singleRet",
          ret |-> [Status |-> "", Changed |-> FALSE,
                   err |-> [kind |-> "interpolate", cause |-> params.err]]]
    ELSE [pc |-> "attempt", ret |-> NoRet]

\* runSingleTask before its retry loop: module resolution, the outcome
\* params of interpolateParams, dry run; what it returns, or that the retry
\* loop is entered
Prepare(t, params, dry) ==
    IF t.Module \notin Registry
    THEN [pc |-> "singleRet",
          ret |-> [Status |-> "", Changed |-> FALSE,
                   err |-> [kind |-> "unknown module", name |-> t.Module]]]
    ELSE IF params.err # NoError
    THEN [pc |-> "singleRet",
          ret |-> [Status |-> "", Changed |-> FALSE,
                   err |-> [kind |-> "interpolate", cause |-> params.err]]]
    ELSE IF dry
    THEN [pc |-> "singleRet",
          ret |-> [Status |-> "skipped", Changed |-> FALSE, err |-> NoError]]
    ELSE [pc |-> "attempt", ret |-> NoRet]

\* runSingleTask continues with the expanded task, at out.pc with out.ret
Continue(expanded, out) ==
    /\ task' = expanded
    /\ ret' = out.ret
    /\ pc' = out.pc

\* runSingleTask on the expanded task
Enter(expanded) ==
    Continue(expanded,
             Prepare(expanded, interpolateParams(expanded.Params, pctx), DryRun))

\* runSingleTask up to its retry loop: shorthand, module, params, dry run
runSingleTask ==
    /\ pc = "single"
    /\ Enter(ExpandShorthand(task))
    /\ attempt' = 1
    /\ lastErr' = NoError
    /\ attemptLog' = <<>>
    /\ delays' = 0
    /\ UNCHANGED <<call, input, output, cancelled, before, DryRun, nPlays, playIdx, stats, success, pctx, taskIdx, frame, loopIdx,
                   anyChanged, handlerIdx, playErr, declared, handlerLog, notifications>>

\* variant of MaxAttempts that counts the retries only
MaxAttemptsOffByOne(t) == IF t.Retries < 1 THEN 1 ELSE t.Retries

\* maxAttempts of runSingleTask
MaxAttempts(t) == IF t.Retries + 1 < 1 THEN 1 ELSE t.Retries + 1

\* the value stored under the register name
RegisteredResult(result) ==
    VMap((S_changed :> VBool(result.Changed)) @@ (S_message :> VStr(result.Message))
         @@ (S_data :> result.Data))

\* variant of AfterSuccess that notifies whether or not the module changed
AfterSuccessAlwaysNotify(ctx, t, result) ==
    LET registered ==
            IF t.Register # <<>>
            THEN [ctx EXCEPT !.Registered = Put(@, t.Register, RegisteredResult(result)),
                             !.Vars = Put(@, t.Register, RegisteredResult(result))]
            ELSE ctx
    IN  IF Len(t.Notify) > 0
        THEN [registered EXCEPT !.NotifiedHandlers = @ \cup {t.Notify[i] : i \in 1..Len(t.Notify)}]
        ELSE registered

\* the PlayContext after the register and notify steps of runSingleTask
AfterSuccess(ctx, t, result) ==
    LET registered ==
            IF t.Register # <<>>
            THEN [ctx EXCEPT !.Registered = Put(@, t.Register, RegisteredResult(result)),
                             !.Vars = Put(@, t.Register, RegisteredResult(result))]
            ELSE ctx
    IN  IF result.Changed /\ Len(t.Notify) > 0
        THEN [registered EXCEPT !.NotifiedHandlers = @ \cup {t.Notify[i] : i \in 1..Len(t.Notify)}]
        ELSE registered

\* errors a module invocation returns once the context is cancelled: the
\* connector does not start a command (exec.CommandContext)
CancelledErrors == {[kind |-> "module", id |-> "canceled"]}

S_removes == <<"r", "e", "m", "o", "v", "e", "s">>

\* command.Run when the context is cancelled while a command of the
\* connector is in flight: the command is killed and Execute returns its
\* exit code without an error.  Killed as the command proper, the exit code
\* makes a CommandError; killed as the check of "removes", the path counts
\* as missing and Run returns Unchanged.
InterruptedRun(t) ==
    {[err |-> [kind |-> "module", id |-> "killed"]]}
    \cup IF S_removes \in DOMAIN t.Params
         THEN {[err |-> NoError,
                result |-> [Changed |-> FALSE, Message |-> <<"s">>, Data |-> VMap(EmptyMap)]]}
         ELSE {}

\* what mod.Run can return: anything while the context is live, an outcome
\* of InterruptedRun when the interrupt comes during the invocation, an
\* error once the context is cancelled
RunOutcomes(t, ctxDone, signal) ==
    IF signal = "during" THEN InterruptedRun(t)
    ELSE IF ctxDone \/ signal = "before" THEN {[err |-> e] : e \in CancelledErrors}
    ELSE {[err |-> e] : e \in ModuleErrors}
         \cup {[err |-> NoError, result |-> r] : r \in ModuleResults}

\* runSingleTask after mod.Run returned the error e
RunFailed(e) ==
    /\ attemptLog' = Append(attemptLog, e)
    /\ lastErr' = e
    /\ IF attempt + 1 <= MaxAttempts(task)
       THEN /\ attempt' = attempt + 1
            /\ pc' = "sleep"
            /\ ret' = ret
       ELSE /\ attempt' = attempt
            /\ pc' = "singleRet"
            /\ ret' = [Status |-> "failed", Changed |-> FALSE, err |-> e]
    /\ UNCHANGED <<pctx, notifications>>

\* runSingleTask after mod.Run returned a result
RunSucceeded(result) ==
    /\ attemptLog' = Append(attemptLog, NoError)
    /\ lastErr' = NoError
    /\ attempt' = attempt
    /\ pctx' = AfterSuccess(pctx, task, result)
    /\ notifications' =
           IF result.Changed
           THEN notifications \cup
                {[by |-> frame, idx |-> IF frame = "handler" THEN handlerIdx ELSE 0,
                  name |-> task.Notify[i]] : i \in 1..Len(task.Notify)}
           ELSE notifications
    /\ ret' = [Status |-> IF result.Changed THEN "changed" ELSE "ok",
               Changed |-> result.Changed, err |-> NoError]
    /\ pc' = "singleRet"

\* runSingleTask: one mod.Run of the retry loop and what follows it; the
\* interrupt may have come before the invocation or come during it
modRun ==
    /\ pc = "attempt"
    /\ \E signal \in Signals :
          /\ signal # "none" => ~cancelled
          /\ cancelled' = (cancelled \/ signal # "none")
          /\ \E o \in RunOutcomes(task, cancelled, signal) :
                IF o.err # NoError THEN RunFailed(o.err) ELSE RunSucceeded(o.result)
    /\ UNCHANGED <<call, input, output, before, DryRun, nPlays, playIdx, stats, success, taskIdx, task, frame, loopIdx,
                   anyChanged, handlerIdx, playErr, delays, declared, handlerLog>>

\* runSingleTask: the time.Sleep before attempt 2 and later
sleep ==
    /\ pc = "sleep"
    /\ delays' = delays + 1
    /\ pc' = "attempt"
    /\ UNCHANGED <<call, input, output, cancelled, before, DryRun, nPlays, playIdx, stats, success, pctx, taskIdx, task, frame,
                   loopIdx, anyChanged, attempt, lastErr, ret, handlerIdx, playErr,
                   attemptLog, declared, handlerLog, notifications>>

\* variant of AbortsPlay that lets the play go on after every failure
AbortsPlayNever(t) == FALSE

\* variant of AbortsPlay that does not look at ignore_errors
AbortsPlayAlways(t) == TRUE

\* runPlay: a failed task ends the play unless it carries ignore_errors
AbortsPlay(t) == ~t.IgnoreErrors

\* runPlay after runTask returned: counting, ignore_errors, abort
runTaskRet ==
    /\ \/ pc = "taskRet"
       \/ pc = "singleRet" /\ frame = "task"
    /\ IF ret.err # NoError
       THEN /\ stats' = [stats EXCEPT !.Failed = @ + 1]
            /\ IF AbortsPlay(task)
               THEN /\ playErr' = ret.err
                    /\ pc' = "playRet"
               ELSE /\ playErr' = playErr
                    /\ pc' = "tasks"
       ELSE /\ stats' = CountStatus(stats, ret.Status)
            /\ playErr' = playErr
            /\ pc' = "tasks"
    /\ task' = NoTask
    /\ frame' = "none"
    /\ ret' = NoRet
    /\ loopIdx' = 0
    /\ anyChanged' = FALSE
    /\ attempt' = 0
    /\ lastErr' = NoError
    /\ attemptLog' = <<>>
    /\ delays' = 0
    /\ before' = NewPlayContext
    /\ UNCHANGED <<call, input, output, cancelled, DryRun, nPlays, playIdx, success, pctx, taskIdx, handlerIdx,
                   declared, handlerLog, notifications>>

\* runPlay: the task list is exhausted; runHandlers up to its loop
runHandlers ==
    /\ pc = "tasks"
    /\ IF pctx.NotifiedHandlers = {}
       THEN pc' = "playRet"
       ELSE pc' = "handlers"
    /\ UNCHANGED <<call, input, output, cancelled, before, DryRun, nPlays, playIdx, stats, success, pctx, taskIdx, task, frame,
                   loopIdx, anyChanged, attempt, lastErr, ret, handlerIdx, playErr,
                   attemptLog, delays, declared, handlerLog, notifications>>

\* variant of IsNotified that runs every declared handler
IsNotifiedAlways(ctx, name) == TRUE

\* runHandlers: pctx.NotifiedHandlers[handler.Name]
IsNotified(ctx, name) == name \in ctx.NotifiedHandlers

\* runHandlers: the next declared handler
runHandler ==
    /\ pc = "handlers"
    /\ handlerIdx < MaxHandlers
    /\ \E h \in HandlerPool :
          /\ declared' = Append(declared, h.Name)
          /\ IF ~IsNotified(pctx, h.Name)
             THEN /\ pc' = "handlers"
                  /\ UNCHANGED <<stats, task, frame, handlerLog, before>>
             ELSE /\ stats' = [stats EXCEPT !.Tasks = @ + 1]
                  /\ task' = h
                  /\ before' = pctx
                  /\ frame' = "handler"
                  /\ handlerLog' = Append(handlerLog, handlerIdx + 1)
                  /\ pc' = "single"
    /\ handlerIdx' = handlerIdx + 1
    /\ UNCHANGED <<call, input, output, cancelled, DryRun, nPlays, playIdx, success, pctx, taskIdx, loopIdx, anyChanged,
                   attempt, lastErr, ret, playErr, attemptLog, delays, notifications>>

\* variant of HandlerAborts that honours the handler's ignore_errors
HandlerAbortsUnlessIgnored(h, err) == err # NoError /\ ~h.IgnoreErrors

\* runHandlers: a failed handler ends the play
HandlerAborts(h, err) == err # NoError

\* runHandlers after runSingleTask returned for a handler
runHandlerRet ==
    /\ pc = "singleRet"
    /\ frame = "handler"
    /\ IF HandlerAborts(task, ret.err)
       THEN /\ stats' = [stats EXCEPT !.Failed = @ + 1]
            /\ playErr' = [kind |-> "handler", name |-> task.Name, cause |-> ret.err]
            /\ pc' = "playRet"
       ELSE /\ stats' = CountHandlerStatus(stats, ret.Status)
            /\ playErr' = playErr
            /\ pc' = "handlers"
    /\ task' = NoTask
    /\ frame' = "none"
    /\ ret' = NoRet
    /\ attempt' = 0
    /\ lastErr' = NoError
    /\ attemptLog' = <<>>
    /\ delays' = 0
    /\ before' = NewPlayContext
    /\ UNCHANGED <<call, input, output, cancelled, DryRun, nPlays, playIdx, success, pctx, taskIdx, loopIdx, anyChanged,
                   handlerIdx, declared, handlerLog, notifications>>

\* runHandlers: the handler list is exhausted
runHandlersEnd ==
    /\ pc = "handlers"
    /\ pc' = "playRet"
    /\ UNCHANGED <<call, input, output, cancelled, before, DryRun, nPlays, playIdx, stats, success, pctx, taskIdx, task, frame,
                   loopIdx, anyChanged, attempt, lastErr, ret, handlerIdx, playErr,
                   attemptLog, delays, declared, handlerLog, notifications>>

\* variant of AfterPlay that goes on with the next play after an error
AfterPlayContinue(err) == "Run"

\* Run: the break out of the play loop on the first play error
AfterPlay(err) == IF err # NoError THEN "done" ELSE "Run"

\* Run after runPlay returned
runPlayRet ==
    /\ pc = "playRet"
    /\ success' = IF playErr # NoError THEN FALSE ELSE success
    /\ pc' = AfterPlay(playErr)
    /\ UNCHANGED <<call, input, output, cancelled, before, DryRun, nPlays, playIdx, stats, pctx, taskIdx, task, frame, loopIdx,
                   anyChanged, attempt, lastErr, ret, handlerIdx, playErr, attemptLog,
                   delays, declared, handlerLog, notifications>>

\* Run: no play is left
runEnd ==
    /\ pc = "Run"
    /\ playIdx = nPlays
    /\ pc' = "done"
    /\ UNCHANGED <<call, input, output, cancelled, before, DryRun, nPlays, playIdx, stats, success, pctx, taskIdx, task, frame,
                   loopIdx, anyChanged, attempt, lastErr, ret, handlerIdx, playErr,
                   attemptLog, delays, declared, handlerLog, notifications>>

Next ==
    \/ runPlay
    \/ runTask
    \/ runTaskLoop
    \/ runTaskLoopRet
    \/ runSingleTask
    \/ modRun
    \/ sleep
    \/ runTaskRet
    \/ runHandlers
    \/ runHandler
    \/ runHandlerRet
    \/ runHandlersEnd
    \/ runPlayRet
    \/ runEnd

Spec == Init /\ [][Next]_vars

\* ------------------------------------------------------------------------
\* The functions of the engine applied on their own
\* ------------------------------------------------------------------------

MaxTokens == 3

\* no run of the executor is under way
Idle ==
    /\ DryRun = FALSE
    /\ nPlays = 0
    /\ pc = "idle"
    /\ playIdx = 0
    /\ stats = [Plays |-> 0, Tasks |-> 0, OK |-> 0, Changed |-> 0,
                Failed |-> 0, Skipped |-> 0]
    /\ success = TRUE
    /\ pctx = NewPlayContext
    /\ taskIdx = 0
    /\ task = NoTask
    /\ frame = "none"
    /\ loopIdx = 0
    /\ anyChanged = FALSE
    /\ attempt = 0
    /\ lastErr = NoError
    /\ ret = NoRet
    /\ handlerIdx = 0
    /\ playErr = NoError
    /\ attemptLog = <<>>
    /\ delays = 0
    /\ declared = <<>>
    /\ handlerLog = <<>>
    /\ notifications = {}
    /\ cancelled = FALSE
    /\ before = NewPlayContext

\* the concatenation of a sequence of strings
RECURSIVE Concat(_)
Concat(parts) == IF parts = <<>> THEN <<>> ELSE Head(parts) \o Concat(Tail(parts))

\* the strings made of at most n of the given pieces
Pieces(pieces, n) == {Concat(ps) : ps \in UNION {[1..k -> pieces] : k \in 0..n}}

\* template pieces: blocks naming the integer c, the list l, the undefined u,
\* an unknown filter; plain text; a space; stray delimiters
TemplatePieces ==
    {<<"{", "{", "c", "}", "}">>,
     <<"{", "{", "l", "}", "}">>,
     <<"{", "{", "u", "}", "}">>,
     <<"{", "{", "c", "|", "x", "}", "}">>,
     <<"n", "=">>,
     <<" ">>,
     <<"{", "{">>,
     <<"}", "}">>}

Templates == Pieces(TemplatePieces, MaxTokens)

\* the PlayContext the templates are interpolated in
TemplateContext ==
    [NewPlayContext EXCEPT
        !.Vars = (<<"c">> :> VInt(42)) @@ (<<"l">> :> VList(<<VStr(<<"a">>), VInt(1)>>))]

\* interpolateString applied to a template
callInterpolateString ==
    /\ call = "interpolateString"
    /\ output = Pending
    /\ output' = interpolateString(input.s, input.pctx)
    /\ UNCHANGED <<execVars, call, input>>

MaxRoles == 2

\* for k, v := range src { merged[k] = v }
Overlay(merged, src) ==
    [k \in (DOMAIN merged) \cup (DOMAIN src) |-> IF k \in DOMAIN src THEN src[k] ELSE merged[k]]

\* the loop of MergeRoleVars over the defaults of the roles
RECURSIVE MergeDefaults(_, _)
MergeDefaults(roles, merged) ==
    IF roles = <<>> THEN merged
    ELSE MergeDefaults(Tail(roles), Overlay(merged, Head(roles).Defaults))

\* the loop of MergeRoleVars over the vars of the roles
RECURSIVE MergeVars(_, _)
MergeVars(roles, merged) ==
    IF roles = <<>> THEN merged
    ELSE MergeVars(Tail(roles), Overlay(merged, Head(roles).Vars))

\* variant of MergeRoleVars that merges the defaults after the vars
MergeRoleVarsDefaultsLast(roles, playVars) ==
    Overlay(MergeDefaults(roles, MergeVars(roles, EmptyMap)), playVars)

\* MergeRoleVars
MergeRoleVars(roles, playVars) ==
    Overlay(MergeVars(roles, MergeDefaults(roles, EmptyMap)), playVars)

S_port == <<"p", "o", "r", "t">>

S_user == <<"u", "s", "e", "r">>

\* the defaults and the vars of a role, over port and user
RoleVarMaps ==
    {Overlay(pm, um) :
        pm \in {EmptyMap, (S_port :> VInt(80)), (S_port :> VInt(8080))},
        um \in {EmptyMap, (S_user :> VStr(<<"w", "w", "w">>))}}

\* the vars of a play, over port and user
PlayVarMaps ==
    {Overlay(pm, um) :
        pm \in {EmptyMap, (S_port :> VInt(9000))},
        um \in {EmptyMap, (S_user :> VStr(<<"a">>))}}

\* the role lists explored
RoleLists == UNION {[1..n -> [Defaults : RoleVarMaps, Vars : RoleVarMaps]] : n \in 0..MaxRoles}

\* MergeRoleVars applied to a role list and the vars of a play
callMergeRoleVars ==
    /\ call = "MergeRoleVars"
    /\ output = Pending
    /\ output' = [val |-> MergeRoleVars(input.roles, input.playVars)]
    /\ UNCHANGED <<execVars, call, input>>

\* the values isTruthy is applied to; a float64 is held as a whole number
TruthyInputs ==
    {Nil, VBool(TRUE), VBool(FALSE),
     VStr(<<>>), VStr(<<"n", "o">>), VStr(<<"y", "e", "s">>),
     VStr(<<"f", "a", "l", "s", "e">>), VStr(<<"F", "a", "l", "s", "e">>),
     VList(<<>>), VList(<<VStr(<<"a">>)>>),
     VMap(EmptyMap), VMap(S_port :> VInt(80))}
    \cup {[t |-> ty, v |-> n] : ty \in {"int", "int64", "float64"}, n \in {-1, 0, 1, 5}}

\* isTruthy applied to a value
callIsTruthy ==
    /\ call = "isTruthy"
    /\ output = Pending
    /\ output' = [val |-> isTruthy(input.v)]
    /\ UNCHANGED <<execVars, call, input>>

MaxNots == 1

S_os == <<"o", "s">>

\* the PlayContext conditions are evaluated in
ConditionContext ==
    [NewPlayContext EXCEPT
        !.Vars = (<<"o", "n">> :> VBool(TRUE)) @@ (<<"o", "f", "f">> :> VBool(FALSE))
                 @@ (<<"n", "a", "m", "e">> :> VStr(<<"a">>))
                 @@ (S_facts :> VMap(S_os :> VStr(<<"l", "i", "n", "u", "x">>))),
        !.Registered = (<<"r">> :> VMap(S_changed :> VBool(TRUE)))
                       @@ (<<"s">> :> VMap(S_changed :> VStr(<<"y", "e", "s">>)))
                       @@ (<<"v">> :> VStr(<<"a">>))]

\* the tokens resolveValue is applied to
ValueTokens ==
    {<<"o", "n">>, <<"o", "f", "f">>, <<"n", "a", "m", "e">>, <<" ", "o", "n", " ">>,
     <<"'", "a", "'">>, <<"\"", "a", "\"">>, <<"'">>,
     <<"t", "r", "u", "e">>, <<"F", "a", "l", "s", "e">>,
     <<"f", "a", "c", "t", "s", ".", "o", "s">>,
     <<"f", "a", "c", "t", "s", ".", "m", "i", "s", "s", "i", "n", "g">>,
     <<"1", ".", "5">>, <<"n", "o", "p", "e">>}

\* the operands of the conditions explored
Operands ==
    ValueTokens
    \cup {<<n>> \o <<".", "c", "h", "a", "n", "g", "e", "d">> : n \in {"r", "s", "u", "v"}}

\* s under at most n leading negations
RECURSIVE Negated(_, _)
Negated(S, n) ==
    IF n = 0 THEN S ELSE S \cup {<<"n", "o", "t", " ">> \o c : c \in Negated(S, n - 1)}

\* the conditions explored
Conditions ==
    Negated(Operands
            \cup {l \o op \o r : l \in Operands, r \in Operands,
                                  op \in {<<"=", "=">>, <<" ", "!", "=", " ">>}},
            MaxNots)

\* resolveValue applied to a token
callResolveValue ==
    /\ call = "resolveValue"
    /\ output = Pending
    /\ output' = [val |-> resolveValue(input.s, input.pctx)]
    /\ UNCHANGED <<execVars, call, input>>

\* evaluateCondition applied to a condition
callEvaluateCondition ==
    /\ call = "evaluateCondition"
    /\ output = Pending
    /\ output' = IF ConditionPanics(input.s, input.pctx)
                 THEN [panic |-> TRUE]
                 ELSE [panic |-> FALSE, val |-> evaluateCondition(input.s, input.pctx)]
    /\ UNCHANGED <<execVars, call, input>>

\* ---- the loader: parseRawTask, loadTasksFile, parseRawPlay ----

\* the largest number of keys of a raw task mapping
MaxRawKeys == 3

\* the largest number of entries of a tasks file or of a play's task list
MaxFileTasks == 2

\* the largest number of handlers of a raw play
MaxRawHandlers == 1

S_name == <<"n", "a", "m", "e">>

S_when == <<"w", "h", "e", "n">>

S_notify == <<"n", "o", "t", "i", "f", "y">>

M_copy == <<"c", "o", "p", "y">>

\* knownTaskFields: the keys that are task directives, not module names
knownTaskFields ==
    {S_name, S_when, <<"r", "e", "g", "i", "s", "t", "e", "r">>, S_notify,
     <<"l", "o", "o", "p">>, <<"w", "i", "t", "h", "_", "i", "t", "e", "m", "s">>,
     <<"l", "o", "o", "p", "_", "v", "a", "r">>,
     <<"i", "g", "n", "o", "r", "e", "_", "e", "r", "r", "o", "r", "s">>,
     <<"r", "e", "t", "r", "i", "e", "s">>, <<"d", "e", "l", "a", "y">>,
     <<"b", "e", "c", "o", "m", "e">>,
     <<"b", "e", "c", "o", "m", "e", "_", "u", "s", "e", "r">>,
     <<"c", "h", "a", "n", "g", "e", "d", "_", "w", "h", "e", "n">>,
     <<"f", "a", "i", "l", "e", "d", "_", "w", "h", "e", "n">>}

\* the Task parseRawTask starts from: zero values and an empty Params map
NewTask ==
    [Name |-> <<>>, Module |-> <<>>, Params |-> EmptyMap,
     When |-> <<>>, Register |-> <<>>, Notify |-> <<>>, Loop |-> <<>>,
     LoopVar |-> <<>>, IgnoreErrors |-> FALSE, Retries |-> 0, ChangedWhen |-> <<>>]

\* raw[key].(string): the string under the key, the zero value when the key
\* is absent or holds another type
RawString(raw, key, zero) ==
    IF key \in DOMAIN raw /\ raw[key].t = "str" THEN raw[key].v ELSE zero

\* raw[key].(bool)
RawBool(raw, key, zero) ==
    IF key \in DOMAIN raw /\ raw[key].t = "bool" THEN raw[key].v ELSE zero

\* raw[key].(int)
RawInt(raw, key, zero) ==
    IF key \in DOMAIN raw /\ raw[key].t = "int" THEN raw[key].v ELSE zero

\* the strings among the items of a notify list, in order
RECURSIVE NotifyItems(_)
NotifyItems(items) ==
    IF items = <<>> THEN <<>>
    ELSE (IF Head(items).t = "str" THEN <<Head(items).v>> ELSE <<>>) \o NotifyItems(Tail(items))

\* notify: a string or a list
RawNotify(raw) ==
    IF S_notify \notin DOMAIN raw THEN <<>>
    ELSE CASE raw[S_notify].t = "str" -> <<raw[S_notify].v>>
           [] raw[S_notify].t = "list" -> NotifyItems(raw[S_notify].v)
           [] OTHER -> <<>>

\* loop: "loop", else "with_items", taken when it is a list
RawLoop(raw) ==
    LET k1 == <<"l", "o", "o", "p">>
        k2 == <<"w", "i", "t", "h", "_", "i", "t", "e", "m", "s">>
    IN  IF k1 \in DOMAIN raw
        THEN (IF raw[k1].t = "list" THEN raw[k1].v ELSE <<>>)
        ELSE IF k2 \in DOMAIN raw /\ raw[k2].t = "list" THEN raw[k2].v ELSE <<>>

\* the task after the known task fields are parsed
KnownFields(raw) ==
    [NewTask EXCEPT
        !.Name = RawString(raw, S_name, <<>>),
        !.When = RawString(raw, S_when, <<>>),
        !.Register = RawString(raw, <<"r", "e", "g", "i", "s", "t", "e", "r">>, <<>>),
        !.LoopVar = RawString(raw, <<"l", "o", "o", "p", "_", "v", "a", "r">>, <<>>),
        !.IgnoreErrors = RawBool(raw, <<"i", "g", "n", "o", "r", "e", "_", "e", "r", "r", "o", "r", "s">>, FALSE),
        !.Retries = RawInt(raw, <<"r", "e", "t", "r", "i", "e", "s">>, 0),
        !.ChangedWhen = RawString(raw, <<"c", "h", "a", "n", "g", "e", "d", "_", "w", "h", "e", "n">>, <<>>),
        !.Notify = RawNotify(raw),
        !.Loop = RawLoop(raw)]

\* the module parameters made of the value under the module key
ModuleParams(value) ==
    CASE value.t = "map" -> value.v
      [] value.t = "str" -> (S_raw :> value)
      [] value.t = "nil" -> EmptyMap
      [] OTHER -> (S_raw :> value)

\* the loop over the keys of raw, visited in the given order (Go leaves the
\* order of a map's keys open): a second key that is no task field, met
\* while Module is not empty, is an error
RECURSIVE FindModule(_, _, _)
FindModule(raw, order, t) ==
    IF order = <<>> THEN [err |-> FALSE, task |-> t]
    ELSE IF Head(order) \in knownTaskFields
         THEN FindModule(raw, Tail(order), t)
         ELSE IF t.Module # <<>>
              THEN [err |-> TRUE]
              ELSE FindModule(raw, Tail(order),
                       [t EXCEPT !.Module = Head(order), !.Params = ModuleParams(raw[Head(order)])])

\* parseRawTask on a raw mapping r.m whose keys are visited in order r.order
parseRawTask(r) == FindModule(r.m, r.order, KnownFields(r.m))

\* the tasks of a list of raw mappings, stopping at the first error
RECURSIVE ParseAll(_, _)
ParseAll(raws, acc) ==
    IF raws = <<>> THEN [err |-> FALSE, tasks |-> acc]
    ELSE IF parseRawTask(Head(raws)).err
         THEN [err |-> TRUE]
         ELSE ParseAll(Tail(raws), Append(acc, parseRawTask(Head(raws)).task))

\* loadTasksFile on the raw mappings of an existing, well-formed file
loadTasksFile(raws) == ParseAll(raws, <<>>)

\* Task.Validate
TaskValid(t) == t.Module # <<>> /\ t.Retries >= 0

\* Play.Validate on the tasks and the handlers of a play with hosts and a
\* valid connection: handlers also need a name
PlayValid(tasks, handlers) ==
    /\ \A i \in 1..Len(tasks) : TaskValid(tasks[i])
    /\ \A i \in 1..Len(handlers) : TaskValid(handlers[i]) /\ handlers[i].Name # <<>>

\* parseRawPlay on the tasks and handlers of a raw play, followed by
\* Play.Validate as ParseRaw does
parseRawPlay(rawTasks, rawHandlers) ==
    IF ParseAll(rawTasks, <<>>).err \/ ParseAll(rawHandlers, <<>>).err
    THEN [err |-> TRUE]
    ELSE IF ~PlayValid(ParseAll(rawTasks, <<>>).tasks, ParseAll(rawHandlers, <<>>).tasks)
         THEN [err |-> TRUE]
         ELSE [err |-> FALSE, tasks |-> ParseAll(rawTasks, <<>>).tasks,
               handlers |-> ParseAll(rawHandlers, <<>>).tasks]

\* the keys and values raw mappings are drawn from
RawKeyPool == {S_name, S_notify, M_command, M_copy, <<>>}

RawValuePool == {VStr(<<"x">>), Nil, VMap(S_cmd :> VStr(<<"x">>)), VInt(1)}

\* the orders in which the keys of a set can be visited
Orders(S) ==
    {o \in [1..Cardinality(S) -> S] : \A i, j \in 1..Cardinality(S) : o[i] = o[j] => i = j}

\* raw mappings of at most MaxRawKeys keys, each with an order of visit
RawTasks ==
    UNION {UNION {[m : [S -> RawValuePool], order : Orders(S)]
                  : S \in {T \in SUBSET RawKeyPool : Cardinality(T) = n}}
           : n \in 0..MaxRawKeys}

\* the mappings a tasks file or a play is made of
FileTaskPool ==
    {r \in RawTasks : /\ DOMAIN r.m \in (SUBSET {S_name, M_command, <<>>}) \ {{S_name, M_command, <<>>}}
                      /\ \A k \in DOMAIN r.m : r.m[k] = VStr(<<"x">>)}

\* lists of at most MaxFileTasks mappings
FileTasks == UNION {[1..n -> FileTaskPool] : n \in 0..MaxFileTasks}

callParseRawTask ==
    /\ call = "parseRawTask"
    /\ output = Pending
    /\ output' = parseRawTask(input)
    /\ UNCHANGED <<execVars, call, input>>

callLoadTasksFile ==
    /\ call = "loadTasksFile"
    /\ output = Pending
    /\ output' = loadTasksFile(input.raws)
    /\ UNCHANGED <<execVars, call, input>>

callParseRawPlay ==
    /\ call = "parseRawPlay"
    /\ output = Pending
    /\ output' = parseRawPlay(input.tasks, input.handlers)
    /\ UNCHANGED <<execVars, call, input>>

\* ---- ExpandShorthand on its own ----

\* the largest length of a generated raw argument string
MaxRawLen == 4

\* the characters raw argument strings are made of
RawChars == {"a", "b", "=", " ", "'"}

\* raw argument strings: every string of at most MaxRawLen characters, and
\* three longer ones with a repeated key, quotes on both sides and a tab
RawStrings ==
    UNION {[1..n -> RawChars] : n \in 0..MaxRawLen}
    \cup {<<"a", "=", "b", " ", "a", "=", "a">>,
          <<"a", "=", "'", "b", "'", " ", "b", "=", "\"", "a", "\"">>,
          <<"b", " ", "a", "=", "b", "\t", "=", "a">>}

M_file == <<"f", "i", "l", "e">>

M_shell == <<"s", "h", "e", "l", "l">>

M_apt == <<"a", "p", "t">>

\* the params of the tasks handed to ExpandShorthand: a raw string, alone or
\* beside another key, a raw value that is no string, and no raw value
ShorthandParams ==
    {(S_raw :> VStr(r)) : r \in RawStrings}
    \cup {(S_raw :> VStr(<<"a">>)) @@ (S_cmd :> VStr(<<"b">>)),
          (S_raw :> VStr(<<"a", "=", "b">>)) @@ (S_cmd :> VStr(<<"b">>)),
          (S_raw :> VInt(1)), (S_raw :> Nil),
          (S_cmd :> VStr(<<"a", "=", "b">>)), EmptyMap}

ShorthandTasks ==
    {[NewTask EXCEPT !.Module = m, !.Params = p] :
        m \in {M_command, M_shell, M_file, M_copy, M_apt}, p \in ShorthandParams}

callExpandShorthand ==
    /\ call = "ExpandShorthand"
    /\ output = Pending
    /\ output' = [task |-> ExpandShorthand(input.task)]
    /\ UNCHANGED <<execVars, call, input>>

PureInit ==
    /\ Idle
    /\ output = Pending
    /\ \/ /\ call = "interpolateString"
          /\ input \in [s : Templates, pctx : {TemplateContext}]
       \/ /\ call = "isTruthy"
          /\ input \in [v : TruthyInputs]
       \/ /\ call = "resolveValue"
          /\ input \in [s : ValueTokens, pctx : {ConditionContext}]
       \/ /\ call = "evaluateCondition"
          /\ input \in [s : Conditions, pctx : {ConditionContext}]
       \/ /\ call = "MergeRoleVars"
          /\ input \in [roles : RoleLists, playVars : PlayVarMaps]
       \/ /\ call = "ExpandShorthand"
          /\ input \in [task : ShorthandTasks]
       \/ /\ call = "parseRawTask"
          /\ input \in RawTasks
       \/ /\ call = "loadTasksFile"
          /\ input \in [raws : FileTasks]
       \/ /\ call = "parseRawPlay"
          /\ input \in [tasks : FileTasks,
                         handlers : {h \in FileTasks : Len(h) <= MaxRawHandlers}]

PureNext ==
    \/ callInterpolateString
    \/ callMergeRoleVars
    \/ callIsTruthy
    \/ callResolveValue
    \/ callEvaluateCondition
    \/ callParseRawTask
    \/ callLoadTasksFile
    \/ callParseRawPlay
    \/ callExpandShorthand

SpecPure == PureInit /\ [][PureNext]_vars

\* ------------------------------------------------------------------------
\* Properties
\* ------------------------------------------------------------------------

\* the names of a notify list
NotifyNames(t) == {t.Notify[i] : i \in 1..Len(t.Notify)}

\* runTask has returned to runPlay
TaskReturned == pc = "taskRet" \/ (pc = "singleRet" /\ frame = "task")

\* C1: after a loop task has finished, with every iteration successful or
\* with an iteration that failed and ended the loop, Vars holds neither the
\* loop variable nor loop_index
C1_LoopVarsRemoved ==
    (pc = "taskRet" /\ frame = "loop")
        => /\ GetLoopVar(task) \notin DOMAIN pctx.Vars
           /\ S_loop_index \notin DOMAIN pctx.Vars

\* how often handler i of the play was executed
Executions(i) == Cardinality({k \in 1..Len(handlerLog) : handlerLog[k] = i})

\* the handlers executed are in declaration order
InDeclarationOrder ==
    \A k \in 1..(Len(handlerLog) - 1) : handlerLog[k] < handlerLog[k + 1]

\* the handler phase of the play has ended and no handler failed
HandlersDone == pc = "playRet" /\ playErr = NoError

\* C2 as stated: when the handler phase has ended without a handler failure,
\* each declared handler was executed once if a task notified it with
\* changed=true and not at all otherwise, in declaration order
C2_NotifiedByTask ==
    HandlersDone
        => /\ \A i \in 1..Len(declared) :
                Executions(i) =
                    IF \E n \in notifications : n.by # "handler" /\ n.name = declared[i]
                    THEN 1 ELSE 0
           /\ InDeclarationOrder

\* C2 amended: when the handler phase has ended without a handler failure,
\* each declared handler was executed once if a task, or a handler declared
\* before it, notified it with changed=true, and not at all otherwise; the
\* handlers executed are in declaration order
C2_NotifiedByTaskOrEarlierHandler ==
    HandlersDone
        => /\ \A i \in 1..Len(declared) :
                Executions(i) =
                    IF \E n \in notifications :
                          /\ n.name = declared[i]
                          /\ (n.by # "handler" \/ n.idx < i)
                    THEN 1 ELSE 0
           /\ InDeclarationOrder

\* two tasks notified both handlers, which ran once each in declaration
\* order although B was notified first
C2_Witness ==
    /\ HandlersDone
    /\ declared = <<HA, HB>>
    /\ handlerLog = <<1, 2>>
    /\ taskIdx = 2
    /\ \A n \in notifications : n.by # "handler"

\* C3: an execution that reaches the retry loop invokes the module between
\* 1 and retries+1 times, stops at the first success, sleeps once between two
\* attempts, succeeds if an attempt succeeds and otherwise fails, after
\* retries+1 attempts, with the error of the last attempt
C3_RetryBound ==
    /\ pc \in {"attempt", "sleep"}
          => /\ Len(attemptLog) < task.Retries + 1
             /\ \A i \in 1..Len(attemptLog) : attemptLog[i] # NoError
    /\ (pc = "singleRet" /\ ~DryRun /\ ret.err.kind \notin {"unknown module", "interpolate"})
          => LET n == Len(attemptLog)
             IN  /\ n >= 1
                 /\ n <= task.Retries + 1
                 /\ \A i \in 1..(n - 1) : attemptLog[i] # NoError
                 /\ delays = n - 1
                 /\ attemptLog[n] = NoError
                       => ret.err = NoError /\ ret.Status \in {"ok", "changed"}
                 /\ attemptLog[n] # NoError
                       => /\ n = task.Retries + 1
                          /\ ret.err = attemptLog[n]
                          /\ ret.Status = "failed"

\* retries=2: two failures, then a success on the third invocation
C3_Witness ==
    /\ pc = "singleRet"
    /\ task.Retries = 2
    /\ Len(attemptLog) = 3
    /\ attemptLog[3] = NoError
    /\ delays = 2
    /\ ret.err = NoError

\* C4: a failed task is counted in Stats.Failed; with ignore_errors the play
\* goes on with the next task, without it the play returns the error, and
\* once the play has an error no task of it is started
C4_IgnoreErrors ==
    [][/\ (TaskReturned /\ ret.err # NoError)
            => /\ stats'.Failed = stats.Failed + 1
               /\ IF task.IgnoreErrors
                  THEN pc' = "tasks" /\ playErr' = NoError /\ taskIdx' = taskIdx
                  ELSE pc' = "playRet" /\ playErr' = ret.err
       /\ (pc = "tasks" /\ taskIdx' # taskIdx) => taskIdx' = taskIdx + 1
       /\ playErr # NoError => (taskIdx' = taskIdx \/ playIdx' # playIdx)
       /\ playErr # NoError => pc' \in {"playRet", "done"}]_vars

\* the second task of a play runs after the first failed and was ignored
C4_Witness ==
    /\ pc = "single"
    /\ frame = "task"
    /\ taskIdx = 2
    /\ stats.Tasks = 2
    /\ stats.Failed = 1

C6_SequentialPlays ==
    [][/\ playIdx' # playIdx
            => /\ playIdx' = playIdx + 1
               /\ pc = "Run"
               /\ success
               /\ playIdx = 0 \/ playErr = NoError
       /\ (pc = "playRet" /\ playErr # NoError)
            => pc' = "done" /\ ~success' /\ stats' = stats /\ playIdx' = playIdx
       /\ pc' = "done"
            => (success' <=> (playIdx' = nPlays /\ playErr' = NoError))]_vars

\* the first of two plays failed after a task was counted; the second play
\* was not started
C6_Witness ==
    /\ pc = "done"
    /\ ~success
    /\ playIdx = 1
    /\ nPlays = 2
    /\ stats.Tasks > 0

\* C7: with DryRun no module is invoked, and an execution that passes module
\* resolution and interpolation returns skipped
C7_DryRun ==
    DryRun
        => /\ pc \notin {"attempt", "sleep"}
           /\ attemptLog = <<>>
           /\ delays = 0
           /\ pctx.NotifiedHandlers = {}
           /\ handlerLog = <<>>
           /\ (pc = "singleRet" /\ ret.err = NoError)
                 => ret.Status = "skipped" /\ ~ret.Changed

\* dry run: the second item of a loop was skipped
C7_Witness ==
    /\ DryRun
    /\ pc = "singleRet"
    /\ frame = "loop"
    /\ loopIdx = 1
    /\ ret.Status = "skipped"

\* C8: every name in Registered is a key of Vars with the same value
C8_RegisteredInVars ==
    \A n \in DOMAIN pctx.Registered :
        n \in DOMAIN pctx.Vars /\ pctx.Vars[n] = pctx.Registered[n]

\* C9: a failed handler, whatever its ignore_errors, makes the play return
\* an error that names it and is counted in Stats.Failed; no handler is
\* executed after it
C9_HandlerFailure ==
    [][/\ (pc = "singleRet" /\ frame = "handler" /\ ret.err # NoError)
            => /\ pc' = "playRet"
               /\ playErr' = [kind |-> "handler", name |-> task.Name, cause |-> ret.err]
               /\ stats'.Failed = stats.Failed + 1
               /\ stats'.Tasks = stats.Tasks
       /\ playErr.kind = "handler"
            => pc' = "done" /\ handlerLog' = handlerLog /\ stats' = stats]_vars

\* a handler with ignore_errors failed and the run ended with its error
C9_Witness ==
    /\ pc = "done"
    /\ ~success
    /\ playErr = [kind |-> "handler", name |-> HB,
                  cause |-> [kind |-> "unknown module", name |-> M_nosuch]]

HasBlock(s) == FindVar(s, 0)[1] >= 0

\* the whole of s is one match of varPattern
IsOneBlock(s) == FindVar(s, 0) = <<0, Len(s)>>

\* C11: a parameter string that, trimmed, is exactly one block is
\* interpolated to the resolved value with its own type; every other string
\* is interpolated to a string in which each block is replaced by the string
\* form of its value
C11_TypePreserving ==
    (call = "interpolateString" /\ output # Pending) =>
        LET t == TrimSpace(input.s)
            r == resolveVariable(TrimSpace(SubSeq(t, 3, Len(t) - 2)), input.pctx)
        IN  IF IsOneBlock(t)
            THEN r.err = NoError => output = r
            ELSE HasBlock(t) =>
                    /\ output.err = NoError
                    /\ output.val = VStr(ReplaceVars(input.s, input.pctx))

\* s with every block replaced by the string form of its value, and kept as
\* it stands when its expression errors or names nothing defined
RECURSIVE KeepUnresolved(_, _)
KeepUnresolved(s, ctx) ==
    LET m == FindVar(s, 0)
        match == SubSeq(s, m[1] + 1, m[2])
        r == resolveVariable(TrimSpace(SubSeq(match, 3, Len(match) - 2)), ctx)
    IN  IF m[1] < 0 THEN s
        ELSE Take(s, m[1])
             \o (IF r.err # NoError \/ r.val = Nil THEN match ELSE Sprintf(r.val))
             \o KeepUnresolved(Drop(s, m[2]), ctx)

\* s is taken by interpolateString as mixed content and holds a block
MixedContent(s) ==
    LET t == TrimSpace(s)
    IN  /\ HasBlock(s)
        /\ ~IsOneBlock(t)
        /\ ~(HasPrefix(t, <<"{", "{">>) /\ HasSuffix(t, <<"}", "}">>))

\* C12: in a mixed-content string every block whose expression names an
\* undefined variable or errors is left verbatim, the others are
\* substituted, and the interpolation does not fail
C12_UnresolvedVerbatim ==
    (call = "interpolateString" /\ output # Pending /\ MixedContent(input.s)) =>
        /\ output.err = NoError
        /\ output.val = VStr(KeepUnresolved(input.s, input.pctx))

\* the indexes of the roles whose map f (Defaults or Vars) defines k
Defining(roles, f, k) == {i \in 1..Len(roles) : k \in DOMAIN roles[i][f]}

\* the greatest element of a non-empty set of numbers
Last(S) == CHOOSE i \in S : \A j \in S : j <= i

\* C13: the result of MergeRoleVars maps a key to the play vars' value if
\* the play vars define it, else to the vars value of the last role whose
\* vars define it, else to the defaults value of the last role whose
\* defaults define it, and holds no key that none of them defines
C13_Precedence ==
    (call = "MergeRoleVars" /\ output # Pending) =>
        LET roles == input.roles
            playVars == input.playVars
            merged == output.val
        IN  /\ DOMAIN merged =
                   (DOMAIN playVars)
                   \cup UNION {(DOMAIN roles[i].Vars) \cup (DOMAIN roles[i].Defaults) :
                                  i \in 1..Len(roles)}
            /\ \A k \in DOMAIN merged :
                   merged[k] =
                       IF k \in DOMAIN playVars THEN playVars[k]
                       ELSE IF Defining(roles, "Vars", k) # {}
                       THEN roles[Last(Defining(roles, "Vars", k))].Vars[k]
                       ELSE roles[Last(Defining(roles, "Defaults", k))].Defaults[k]

\* C13 witness: defaults port=80 and vars port=8080 of one role, play vars
\* without port, merged to port=8080
C13_Witness ==
    /\ call = "MergeRoleVars"
    /\ output # Pending
    /\ Len(input.roles) = 1
    /\ input.roles[1].Defaults = (S_port :> VInt(80))
    /\ input.roles[1].Vars = (S_port :> VInt(8080))
    /\ input.playVars = EmptyMap
    /\ output.val = (S_port :> VInt(8080))

\* C14: for a number of any of the types int, int64 and float64, isTruthy
\* is false exactly when the number is zero
C14_ZeroIsFalse ==
    (call = "isTruthy" /\ output # Pending
        /\ input.v.t \in {"int", "int64", "float64"}) =>
            output.val = (input.v.v # 0)

\* s is a quoted string literal or a boolean literal
IsLiteral(s) ==
    \/ \E q \in {"'", "\""} : HasPrefix(s, <<q>>) /\ HasSuffix(s, <<q>>)
    \/ s \in {<<"t", "r", "u", "e">>, <<"T", "r", "u", "e">>,
               <<"f", "a", "l", "s", "e">>, <<"F", "a", "l", "s", "e">>}

\* C15: a token that is neither a quoted nor a boolean literal resolves to
\* the Vars entry of that exact key, else to what its dotted path leads to
\* in Vars, and to the token text itself when neither resolves it
C15_LiteralFallback ==
    (call = "resolveValue" /\ output # Pending /\ ~IsLiteral(TrimSpace(input.s))) =>
        LET s == TrimSpace(input.s)
            Vars == input.pctx.Vars
            walked == WalkAny(VMap(Vars), Split(s, <<".">>))
        IN  output.val = IF s \in DOMAIN Vars THEN Vars[s]
                         ELSE IF walked # Nil THEN walked
                         ELSE VStr(s)

\* the result the rules of evaluateCondition give, in their order
RECURSIVE ByRules(_, _)
ByRules(cond, ctx) ==
    LET c == TrimSpace(cond)
        name == Take(c, Len(c) - 8)
        eq == Index(c, <<"=", "=">>)
        ne == Index(c, <<"!", "=">>)
        form(x) == Sprintf(resolveValue(x, ctx))
    IN  IF HasPrefix(c, <<"n", "o", "t", " ">>) THEN ~ByRules(Drop(c, 4), ctx)
        ELSE IF HasSuffix(c, <<".", "c", "h", "a", "n", "g", "e", "d">>)
        THEN /\ name \in DOMAIN ctx.Registered
             /\ ctx.Registered[name].t = "map"
             /\ S_changed \in DOMAIN ctx.Registered[name].v
             /\ ctx.Registered[name].v[S_changed] = VBool(TRUE)
        ELSE IF eq >= 0 THEN form(Take(c, eq)) = form(Drop(c, eq + 2))
        ELSE IF ne >= 0 THEN form(Take(c, ne)) # form(Drop(c, ne + 2))
        ELSE isTruthy(resolveValue(c, ctx))

\* C16: for every condition evaluateCondition returns the result of the
\* first applicable rule: leading not, trailing .changed, ==, !=, truthiness
C16_RuleOrder ==
    (call = "evaluateCondition" /\ output # Pending) =>
        /\ ~output.panic
        /\ output.val = ByRules(input.s, input.pctx)

\* the task carries changed_when: "false"
NeverChanged(t) == t.ChangedWhen = <<"f", "a", "l", "s", "e">>

\* the module has reported for a task with changed_when: "false"
ReportsOk ==
    (pc = "attempt" /\ frame = "task" /\ NeverChanged(task)
        /\ pc' = "singleRet" /\ ret'.err = NoError) =>
            /\ ret'.Status = "ok"
            /\ pctx'.NotifiedHandlers = pctx.NotifiedHandlers

\* the play counts a task with changed_when: "false" that succeeded
CountsOk ==
    (pc = "singleRet" /\ frame = "task" /\ NeverChanged(task)
        /\ ret.err = NoError /\ ~DryRun) =>
            /\ stats'.OK = stats.OK + 1
            /\ stats'.Changed = stats.Changed

\* C17: a task with changed_when: "false" whose module reports changed
\* returns status ok, notifies no handler and is counted in Stats.OK
C17_ChangedWhen == [][ReportsOk /\ CountsOk]_vars

\* the current play names an unimplemented connector
Unimplemented == playIdx > 0 /\ GetConnection(pctx.Play) \in {"ssh", "ssm"}

\* runPlay on an ssh or ssm play returns an error with nothing gathered
\* or counted
FailsEarly ==
    (playIdx' = playIdx + 1 /\ Unimplemented') =>
        /\ pc' = "playRet"
        /\ playErr' # NoError
        /\ stats' = stats
        /\ pctx'.Facts = EmptyMap
        /\ S_facts \notin DOMAIN pctx'.Vars

\* Run ends on the error of an ssh or ssm play
EndsRun ==
    (pc = "playRet" /\ Unimplemented) =>
        /\ ~success'
        /\ pc' = "done"
        /\ stats' = stats

\* C18: a play with connection ssh or ssm passes validation and fails when
\* run, before facts are gathered or a task is started, and the run is not
\* a success; a play with a connection outside local, docker, ssh and ssm
\* is rejected by validation and never run
C18_Unimplemented ==
    [][/\ FailsEarly
       /\ EndsRun
       /\ (playIdx' > 0 => GetConnection(pctx'.Play) \in {"local", "docker", "ssh", "ssm"})]_vars

\* C18 witness: a run that ended on an ssh play after a play that ran a task
C18_Witness ==
    /\ pc = "done"
    /\ playIdx = 2
    /\ pctx.Play.Connection = "ssh"
    /\ ~success
    /\ stats.Tasks = 1


\* the keys of a raw mapping that are no reserved directive
NonReserved(m) == DOMAIN m \ knownTaskFields

\* the task made of a raw mapping has the mapping's only non-reserved key
\* as its module
ModuleIsOnlyKey(r, t) ==
    /\ Cardinality(NonReserved(r.m)) = 1
    /\ t.Module \in NonReserved(r.m)

\* every task of a loaded list comes from a mapping with exactly one
\* non-reserved key, its module
LoadedOk(raws, loaded) ==
    /\ Len(loaded) = Len(raws)
    /\ \A i \in 1..Len(raws) : ModuleIsOnlyKey(raws[i], loaded[i])

\* C19: every mapping the loader turns into a Task (the tasks and handlers
\* of a play, the tasks and handlers files of a role) has exactly one key
\* that is no reserved directive, and that key is the Task's module; a
\* mapping with zero or with two or more such keys gives an error and no
\* Task.
C19_OneModuleKey ==
    /\ (call = "loadTasksFile" /\ output # Pending /\ ~output.err)
          => LoadedOk(input.raws, output.tasks)
    /\ (call = "parseRawPlay" /\ output # Pending /\ ~output.err)
          => (LoadedOk(input.tasks, output.tasks) /\ LoadedOk(input.handlers, output.handlers))


\* the params hold a raw string
HoldsRaw(t) == S_raw \in DOMAIN t.Params /\ t.Params[S_raw].t = "str"

\* the key a single argument goes under
DefaultKey(m) ==
    CASE m \in {M_command, M_shell} -> S_cmd
      [] m = M_file -> <<"p", "a", "t", "h">>
      [] m = M_copy -> <<"d", "e", "s", "t">>
      [] OTHER -> S_name

\* the whitespace-separated fields of s, as <<first, last>> positions: the
\* maximal runs of characters that are no whitespace
FieldSpans(s) ==
    {sp \in (1..Len(s)) \X (1..Len(s)) :
        /\ sp[1] <= sp[2]
        /\ \A k \in sp[1]..sp[2] : ~IsSpace(s[k])
        /\ sp[1] = 1 \/ IsSpace(s[sp[1] - 1])
        /\ sp[2] = Len(s) \/ IsSpace(s[sp[2] + 1])}

\* the fields that are key=value pairs: an "=" after a key that is not empty
PairSpans(s) ==
    {sp \in FieldSpans(s) : s[sp[1]] # "=" /\ \E p \in sp[1]..sp[2] : s[p] = "="}

\* the position of the first "=" of a pair
EqPos(s, sp) ==
    CHOOSE p \in sp[1]..sp[2] : s[p] = "=" /\ \A q \in sp[1]..(p - 1) : s[q] # "="

PairKey(s, sp) == [i \in 1..(EqPos(s, sp) - sp[1]) |-> s[sp[1] + i - 1]]

\* the value of a pair: what follows the first "=", without the quotes
\* around it
PairValue(s, sp) ==
    LET inner == {p \in (EqPos(s, sp) + 1)..sp[2] : s[p] \notin {"\"", "'"}}
        lo == CHOOSE p \in inner : \A q \in inner : p <= q
        hi == CHOOSE p \in inner : \A q \in inner : q <= p
    IN  IF inner = {} THEN <<>> ELSE [i \in 1..(hi - lo + 1) |-> s[lo + i - 1]]

\* the map of the key=value pairs of s, the last pair of a key giving its value
PairMap(s) ==
    [k \in {PairKey(s, sp) : sp \in PairSpans(s)} |->
        VStr(PairValue(s, CHOOSE sp \in PairSpans(s) :
                              /\ PairKey(s, sp) = k
                              /\ \A o \in PairSpans(s) : PairKey(s, o) = k => o[1] <= sp[1]))]

\* the params expected of a task
ShorthandOf(t) ==
    IF ~HoldsRaw(t) THEN t.Params
    ELSE IF \A i \in 1..Len(t.Params[S_raw].v) : t.Params[S_raw].v[i] # "="
         THEN (DefaultKey(t.Module) :> t.Params[S_raw])
         ELSE PairMap(t.Params[S_raw].v)

\* C20: ExpandShorthand on a task whose params hold a raw string without
\* "=" makes the params exactly {k: raw}, k being cmd for command and shell,
\* path for file, dest for copy and name for any other module; with "=" the
\* params become the map of the whitespace-separated key=value pairs, split
\* at the first "=", the quotes around the value stripped; a task whose
\* params hold no raw string is left unchanged.
C20_Shorthand ==
    (call = "ExpandShorthand" /\ output # Pending)
        => output.task = [input.task EXCEPT !.Params = ShorthandOf(input.task)]

\* a raw string with two quoted key=value pairs has been expanded
C20_Witness ==
    /\ call = "ExpandShorthand"
    /\ output # Pending
    /\ HoldsRaw(input.task)
    /\ \E i \in 1..Len(input.task.Params[S_raw].v) : input.task.Params[S_raw].v[i] = "'"
    /\ output.task.Params = (<<"a">> :> VStr(<<"b">>)) @@ (<<"b">> :> VStr(<<"a">>))



\* runSingleTask is about to run for an item of a loop
LoopExecution == pc = "single" /\ frame = "loop"

\* the execution of item loopIdx sees the item and its index in Vars
ItemInVars ==
    /\ loopIdx < Len(task.Loop)
    /\ GetLoopVar(task) \in DOMAIN pctx.Vars
    /\ pctx.Vars[GetLoopVar(task)] = task.Loop[loopIdx + 1]
    /\ S_loop_index \in DOMAIN pctx.Vars
    /\ pctx.Vars[S_loop_index] = VInt(loopIdx)

\* the loop goes through the items in order, keeps the templates of the
\* task, and ends at the first failed execution or after the last item
LoopSteps ==
    /\ (pc = "tasks" /\ pc' = "loop") => loopIdx' = 0
    /\ (pc = "loop" /\ loopIdx < Len(task.Loop))
          => pc' = "single" /\ loopIdx' = loopIdx /\ task' = task
    /\ (pc = "loop" /\ loopIdx = Len(task.Loop)) => pc' = "taskRet"
    /\ LoopExecution => task'.Params = task.Params /\ task'.Loop = task.Loop
    /\ (pc = "singleRet" /\ frame = "loop")
          => IF ret.err # NoError
             THEN pc' = "taskRet"
             ELSE pc' = "loop" /\ loopIdx' = loopIdx + 1 /\ task' = task
    /\ (pc = "taskRet" /\ frame = "loop") => pc' \in {"tasks", "playRet"}

\* C21: a loop task over n >= 1 items is executed once per item in list
\* order, the i-th execution interpolating the original parameter templates
\* with Vars[loop-var] = xi and Vars[loop_index] = i (0-based); the loop
\* stops at the first execution that fails
C21_LoopIteration == [][LoopSteps /\ (LoopExecution' => ItemInVars')]_vars



\* the expression "{{ r | nope }}": a whole-string reference with a filter
\* applyFilter does not know
S_unknownFilter == <<"{", "{", " ", "r", " ", "|", " ", "n", "o", "p", "e", " ", "}", "}">>

\* a parameter of t is that expression
UnknownFilterParam(t) == \E k \in DOMAIN t.Params : t.Params[k] = VStr(S_unknownFilter)

\* runSingleTask on such a task returns an error, the interpolation error
\* when the module exists, and leaves the play context alone
FailsToInterpolate ==
    (pc = "single" /\ UnknownFilterParam(task))
        => /\ pc' = "singleRet"
           /\ ret'.err # NoError
           /\ task.Module \in Registry => ret'.err.kind = "interpolate"
           /\ attemptLog' = <<>>
           /\ pctx' = pctx
           /\ notifications' = notifications

\* the module of such a task is never invoked
NeverInvoked == UnknownFilterParam(task') => (pc' \notin {"attempt", "sleep"} /\ attemptLog' = <<>>)

\* C22: a task with a parameter whose whole-string expression applies an
\* unknown filter fails with an interpolation error before any module
\* invocation: the module is invoked zero times, nothing is registered and
\* no handler is notified
C22_UnknownFilter == [][FailsToInterpolate /\ NeverInvoked]_vars

\* a registering, notifying task failed to interpolate outside dry run
C22_Witness ==
    /\ pc = "singleRet"
    /\ UnknownFilterParam(task)
    /\ ret.err.kind = "interpolate"
    /\ task.Register = S_r
    /\ task.Notify = <<HA>>
    /\ ~DryRun
    /\ attemptLog = <<>>



\* the task names an unknown module or has a parameter that fails to
\* interpolate
FailsBeforeModule(t) == t.Module \notin Registry \/ UnknownFilterParam(t)

\* in dry run the execution of such a task returns an error, not skipped
DryRunStillFails ==
    (DryRun /\ pc = "single" /\ FailsBeforeModule(task))
        => /\ pc' = "singleRet"
           /\ ret'.err # NoError
           /\ ret'.Status # "skipped"

\* the error of an item ends the loop and is the error of the task
DryRunLoopFails ==
    (DryRun /\ pc = "singleRet" /\ frame = "loop" /\ ret.err # NoError)
        => pc' = "taskRet" /\ ret' = ret

\* the task is counted as failed, not as skipped, and ends the play unless
\* it carries ignore_errors
DryRunCountsFailed ==
    (DryRun /\ TaskReturned /\ ret.err # NoError)
        => /\ stats'.Failed = stats.Failed + 1
           /\ stats'.Skipped = stats.Skipped
           /\ IF task.IgnoreErrors
              THEN pc' = "tasks" /\ playErr' = NoError
              ELSE pc' = "playRet" /\ playErr' = ret.err

\* C23: with DryRun a task that names an unknown module or has a parameter
\* that fails to interpolate is reported as failed (counted in Stats.Failed,
\* ending the play unless ignore_errors is set), not as skipped
C23_DryRunFailures == [][DryRunStillFails /\ DryRunLoopFails /\ DryRunCountsFailed]_vars

\* dry run: the first task was skipped, the second failed to interpolate
\* and ended the run
C23_Witness ==
    /\ DryRun
    /\ pc = "done"
    /\ ~success
    /\ playErr.kind = "interpolate"
    /\ stats.Skipped = 1
    /\ stats.Failed = 1
    /\ stats.Tasks = 2



\* the interrupt reaches the context at this module invocation
Interrupted == pc = "attempt" /\ ~cancelled /\ cancelled'

\* the interrupted invocation returns an error, which a task without
\* retries returns as its own
InterruptFails ==
    Interrupted
        => /\ lastErr' # NoError
           /\ task.Retries = 0 => (pc' = "singleRet" /\ ret'.err = lastErr')

\* the error of a task without ignore_errors ends the play and the run:
\* no later task, no handler, no later play, Success false
ErrorIsFatal ==
    /\ (pc = "singleRet" /\ frame = "loop" /\ ret.err # NoError)
          => pc' = "taskRet" /\ ret' = ret /\ task' = task
    /\ (TaskReturned /\ ret.err # NoError /\ ~task.IgnoreErrors)
          => pc' = "playRet" /\ playErr' = ret.err
    /\ (pc = "playRet" /\ playErr # NoError)
          => /\ pc' = "done"
             /\ ~success'
             /\ UNCHANGED <<playIdx, taskIdx, handlerLog, attemptLog, stats>>

\* C24: when the interrupt cancels the context while a module invocation
\* of a task is in flight, the invocation returns an error, and for a task
\* with retries=0 and ignore_errors=false the play ends at that task: no
\* later task and no handler of the play runs, no later play starts and the
\* run reports Success=false
C24_InterruptIsFatal == [][InterruptFails /\ ErrorIsFatal]_vars



\* the Vars of the context of a play that starts: the vars of the play,
\* env, and facts when they were gathered
OnlyPlayVars(ctx, gathered) ==
    /\ DOMAIN ctx.Vars = DOMAIN ctx.Play.Vars \cup {S_env}
                             \cup (IF gathered THEN {S_facts} ELSE {})
    /\ \A k \in DOMAIN ctx.Play.Vars \ {S_env, S_facts} : ctx.Vars[k] = ctx.Play.Vars[k]
    /\ ctx.Vars[S_env] = EnvMap
    /\ gathered => ctx.Vars[S_facts] = VMap(ctx.Facts)

\* a play starts
PlayStarts == playIdx' # playIdx

\* the context of the play that starts
StartsFresh ==
    /\ pctx'.Play \in PlayPool
    /\ pctx'.Registered = EmptyMap
    /\ pctx'.NotifiedHandlers = {}
    /\ OnlyPlayVars(pctx', pctx'.Play.GatherFacts /\ pc' = "tasks")

\* C25: each play starts with a fresh PlayContext: Registered and
\* NotifiedHandlers are empty and Vars holds only the vars of that play, env
\* and, when gathered, facts; nothing registered, notified or written during
\* a play is visible to a later play
C25_FreshContext == [][PlayStarts => StartsFresh]_vars

\* the second play starts after the first ran a task that changed
C25_Witness ==
    /\ playIdx = 2
    /\ pc = "tasks"
    /\ taskIdx = 0
    /\ stats.Changed >= 1
    /\ pctx.Registered = EmptyMap
    /\ S_facts \in DOMAIN pctx.Vars
    /\ S_r \notin DOMAIN pctx.Vars



\* a handler of the current play is being executed or has been executed
HandlerPhase == pc = "handlers" \/ frame = "handler" \/ handlerLog # <<>>

\* the handler phase begins when the task loop has ended and not before;
\* once it has begun no task of the play is started
HandlersAfterTasks ==
    /\ (~HandlerPhase /\ HandlerPhase') => (pc = "tasks" /\ frame = "none" /\ pc' = "handlers")
    /\ HandlerPhase => (taskIdx' = taskIdx \/ playIdx' # playIdx)
    /\ frame' = "handler" => pc' \in {"single", "attempt", "sleep", "singleRet"}
    /\ (pc' \in {"attempt", "sleep"} /\ frame' = "handler") => HandlerPhase

\* a task failure that ends the play leaves every handler unexecuted
NoHandlerAfterAbort ==
    /\ (TaskReturned /\ ret.err # NoError /\ ~task.IgnoreErrors)
          => pc' = "playRet" /\ playErr' = ret.err /\ handlerLog' = <<>>
    /\ (pc = "playRet" /\ playErr # NoError)
          => pc' = "done" /\ handlerLog' = handlerLog /\ frame' = "none"

\* C26: handlers run only at the end of a play, after every task of the
\* play has been processed: no handler's module is invoked before the last
\* task has finished, and when a task failure ends the play no handler runs,
\* not even one that an earlier changed task notified
C26_HandlersAtEnd == [][HandlersAfterTasks /\ NoHandlerAfterAbort]_vars

\* the second task failed and ended the run; the handler the first task
\* notified did not run
C26_Witness ==
    /\ pc = "done"
    /\ ~success
    /\ playErr.kind = "module"
    /\ taskIdx = 2
    /\ pctx.NotifiedHandlers = {HA}
    /\ handlerLog = <<>>
    /\ stats.Changed = 1



\* the sum of the four outcome counters
Outcomes(st) == st.OK + st.Changed + st.Failed + st.Skipped

\* a step that counts: either a task or handler is started and Tasks grows
\* by one, or one returns and exactly one outcome counter grows by one
CountsOnce ==
    stats' # stats =>
        \/ stats' = [stats EXCEPT !.Tasks = @ + 1]
        \/ stats' \in {[stats EXCEPT !.OK = @ + 1], [stats EXCEPT !.Changed = @ + 1],
                       [stats EXCEPT !.Failed = @ + 1], [stats EXCEPT !.Skipped = @ + 1]}

\* the iterations of a loop task do not count
LoopCountsOnce == (frame = "loop" /\ frame' = "loop") => stats' = stats

\* C27: when Run returns, Stats.Tasks = Stats.OK + Stats.Changed +
\* Stats.Failed + Stats.Skipped: every started task and every run handler is
\* counted once in Tasks and in exactly one of the four outcome counters, a
\* loop task once whatever the number of its iterations
C27_StatsAddUp ==
    [][/\ CountsOnce
       /\ LoopCountsOnce
       /\ pc' = "done" => stats'.Tasks = Outcomes(stats')]_vars

\* a run of two tasks and two handlers that ended with a failed, an ok and a
\* changed outcome counted
C27_Witness ==
    /\ pc = "done"
    /\ stats.Tasks = 4
    /\ stats.Failed >= 1
    /\ stats.OK >= 1
    /\ stats.Changed >= 1



\* the entry of the map m under the key k, Nil when there is none
Entry(m, k) == IF k \in DOMAIN m THEN m[k] ELSE Nil

\* runTask or runSingleTask has returned an error to runPlay or runHandlers
ExecutionFailed ==
    /\ TaskReturned \/ (pc = "singleRet" /\ frame = "handler")
    /\ ret.err # NoError

\* Registered, the registered entry of Vars and NotifiedHandlers are those
\* of the start of the execution
ContextAsBefore ==
    /\ pctx.Registered = before.Registered
    /\ pctx.NotifiedHandlers = before.NotifiedHandlers
    /\ task.Register # <<>> =>
          Entry(pctx.Vars, task.Register) = Entry(before.Vars, task.Register)

S_rchanged == <<"r", ".", "c", "h", "a", "n", "g", "e", "d">>

\* a when clause on the changed field of a name that only the failed
\* execution registers is false
LaterWhenIsFalse ==
    (task.Register = S_r /\ S_r \notin DOMAIN before.Vars \cup DOMAIN before.Registered)
        => WhenSkips([DefaultTask EXCEPT !.When = S_rchanged], pctx)

\* C28: a task execution that fails (every attempt errored, the module is
\* unknown, or interpolation failed) leaves Registered, the registered
\* entry in Vars and NotifiedHandlers as they were before the task, also
\* when ignore_errors is set; a later when on name.changed, for a name only
\* the failed task registers, is false
C28_FailureLeavesContext == ExecutionFailed => (ContextAsBefore /\ LaterWhenIsFalse)



\* C29: with DryRun set, when Run returns Stats.OK = 0 and Stats.Changed = 0:
\* every task that does not fail, loop tasks included, is counted in
\* Stats.Skipped
C29_DryRunCounts == (pc = "done" /\ DryRun) => (stats.OK = 0 /\ stats.Changed = 0)



\* runTaskLoop has returned after its last iteration
LoopCompleted == pc = "taskRet" /\ frame = "loop" /\ ret.err = NoError

\* every entry of Vars but the one under the register name of the task is
\* as it was when the task was started
VarsAsBefore ==
    \A k \in (DOMAIN pctx.Vars \cup DOMAIN before.Vars) \ {task.Register} :
        Entry(pctx.Vars, k) = Entry(before.Vars, k)

\* C30: a loop task that completes leaves every Vars entry other than its
\* own register name as it was before the loop started; a play variable
\* named like the loop variable or named loop_index has its value of before
\* the loop again
C30_LoopRestoresVars == LoopCompleted => VarsAsBefore


====
